---- MODULE Spec2Model ----
(***************************************************************************)
(* Pull-request collaboration core of gitness:                             *)
(*   - the head-ref synchronizer (app/services/pullreq/handlers_head_ref), *)
(*   - the merge verifier of the branch protection rules                   *)
(*     (package protection, DefPullReq.MergeVerify).                       *)
(***************************************************************************)
EXTENDS Integers, Sequences, FiniteSets, TLC

(***************************************************************************)
(* Bounds of the model.                                                    *)
(***************************************************************************)
MaxPR == 1
MaxSHA == 2
MaxEvents == 3
MaxDeliveries == 2
NumWorkers == 2
MaxReviewers == 2
MaxMinimumCount == 2
MaxEvaluations == 3
MaxGroups == 2
MaxItems == 1
MaxRequired == 2
MaxResults == 3
MaxRefUpdates == 3
MaxPushes == 2
MaxPullReqs == 3
MaxTime == 1
MaxPatterns == 2
MaxStrategies == 3
NumCallers == 2

PRNumbers == 1..MaxPR
SHAs == 1..MaxSHA
Workers == 1..NumWorkers

(***************************************************************************)
(* Values of the program.                                                  *)
(***************************************************************************)
\* the empty string passed as UpdateRefParams.OldValue
NoValue == 0
\* the git backend's answer for a reference that does not exist
RefNotFound == -1

RefTypePullReqHead == "pullreq-head"
RefTypeBranch == "branch"
RefTypeTag == "tag"

KindCreated == "Created"
KindBranchUpdated == "BranchUpdated"
KindReopened == "Reopened"

\* the references of the target repository: one PR head ref per PR number,
\* and a branch and a tag that no handler of the synchronizer names
\* the id of the target repository of the pull requests
TargetRepo == 1

\* a reference: the repository, the type and the name
RefNames ==
    {<<TargetRepo, RefTypePullReqHead, n>> : n \in PRNumbers}
        \cup {<<TargetRepo, RefTypeBranch, 0>>, <<TargetRepo, RefTypeTag, 0>>}

Idle == 0
NoHandling == [kind |-> "none"]

VARIABLES
    pullreq,     \* the PR store: per PR number its State and SourceSHA
    refs,        \* the git backend: value of every reference of the repository
    published,   \* the PR lifecycle events published so far, in order
    deliveries,  \* how often each published event was handed to a worker
    worker,      \* per worker: Idle or the index of the event it is handling
    lastH,       \* per PR: record of the latest completed handling
    faulted,     \* per PR: some handler of its events returned before it
                 \* issued its UpdateRef
    v,           \* the protection rule (DefPullReq) MergeVerify is called on
    in,          \* the MergeVerifyInput of the call
    ret,         \* what the call of MergeVerify produced, NoRet before it
    entry,       \* the codeowners.EvaluationEntry passed to
                 \* getCodeOwnerApprovalStatus
    status,      \* what getCodeOwnerApprovalStatus returned, NoRet before it
    in2,         \* the MergeVerifyInput of a second call on the same rule
    ret2,        \* what the second call produced, NoRet before it
    hookIn,      \* a push as the post-receive hook sees it: the session's
                 \* access, the ref updates, the repository's default branch
                 \* and pull requests, whether the store's List fails
    hookOut,     \* what PostReceive produced, NoRet before it: its output
                 \* and error, the events handed to the reporter and the
                 \* answers git.IsAncestor gave
    pullreqStore,   \* the stored record of the pull request that the calls
                    \* of Controller.Update are about
    activityStore,  \* the activities written for that pull request
    update,         \* per caller of Controller.Update: where the call is,
                    \* its input, the record it read and what it returned
    checks,         \* a DefStatusChecks value
    document,       \* a JSON document handed to DefStatusChecks.UnmarshalJSON
    decoded,        \* what UnmarshalJSON made of the document, NoRet before
    roundTrip       \* what MarshalJSON made of checks and UnmarshalJSON of
                    \* that, NoRet before

headRefVars == <<pullreq, refs, published, deliveries, worker, lastH, faulted>>
verifyVars == <<v, in, ret, entry, status, in2, ret2>>
hookVars == <<hookIn, hookOut>>
updateVars == <<pullreqStore, activityStore, update>>
jsonVars == <<checks, document, decoded, roundTrip>>
vars == <<headRefVars, verifyVars, hookVars, updateVars, jsonVars>>

(***************************************************************************)
(* Git backend capability UpdateRef: the update fails when OldValue does   *)
(* not match the current value of the reference; the empty OldValue means  *)
(* that the reference must not exist.                                      *)
(***************************************************************************)
UpdateRef(rs, p) ==
    LET name == <<p.WriteParams, p.Type, p.Name>>
        cur == rs[name]
        matches == IF p.OldValue = NoValue
                     THEN cur = RefNotFound
                     ELSE cur = p.OldValue
    IN  IF matches
          THEN [refs |-> [rs EXCEPT ![name] = p.NewValue], err |-> FALSE]
          ELSE [refs |-> rs, err |-> TRUE]

(***************************************************************************)
(* Lifecycle event payloads.                                               *)
(***************************************************************************)
CreatedPayload(n, s) ==
    [Kind |-> KindCreated, TargetRepoID |-> TargetRepo, Number |-> n,
     SourceSHA |-> s,
     OldSHA |-> NoValue, NewSHA |-> NoValue]

BranchUpdatedPayload(n, old, new) ==
    [Kind |-> KindBranchUpdated, TargetRepoID |-> TargetRepo, Number |-> n,
     SourceSHA |-> NoValue,
     OldSHA |-> old, NewSHA |-> new]

ReopenedPayload(n, s) ==
    [Kind |-> KindReopened, TargetRepoID |-> TargetRepo, Number |-> n,
     SourceSHA |-> s,
     OldSHA |-> NoValue, NewSHA |-> NoValue]

(***************************************************************************)
(* The three handlers.  fault is the outcome of the two preparation steps: *)
(* "cache" when repoGitInfoCache.Get fails, "params" when                  *)
(* createSystemRPCWriteParams fails, "none" when both succeed.  The result *)
(* is the references after the handler, whether it returned an error and   *)
(* whether it issued UpdateRef.                                            *)
(***************************************************************************)
Faults == {"none", "cache", "params"}

\* variant: the head ref of the second pull request is written
createHeadRefOnCreatedParams_secondPR(ev) ==
    [WriteParams |-> ev.TargetRepoID, Name |-> 2,
     Type |-> RefTypePullReqHead,
     NewValue |-> ev.SourceSHA, OldValue |-> NoValue]

createHeadRefOnCreatedParams(ev) ==
    [WriteParams |-> ev.TargetRepoID, Name |-> ev.Number,
     Type |-> RefTypePullReqHead,
     NewValue |-> ev.SourceSHA, OldValue |-> NoValue]

\* variant: the expected and the new value are passed in each other's place
updateHeadRefOnBranchUpdateParams_swapped(ev) ==
    [WriteParams |-> ev.TargetRepoID, Name |-> ev.Number,
     Type |-> RefTypePullReqHead,
     NewValue |-> ev.OldSHA, OldValue |-> ev.NewSHA]

updateHeadRefOnBranchUpdateParams(ev) ==
    [WriteParams |-> ev.TargetRepoID, Name |-> ev.Number,
     Type |-> RefTypePullReqHead,
     NewValue |-> ev.NewSHA, OldValue |-> ev.OldSHA]

updateHeadRefOnReopenParams(ev) ==
    [WriteParams |-> ev.TargetRepoID, Name |-> ev.Number,
     Type |-> RefTypePullReqHead,
     NewValue |-> ev.SourceSHA, OldValue |-> NoValue]

\* variant: the error of UpdateRef is dropped instead of returned
createHeadRefOnCreated_swallow(rs, ev, fault) ==
    IF fault # "none"
      THEN [refs |-> rs, err |-> TRUE, issued |-> FALSE]
      ELSE LET r == UpdateRef(rs, createHeadRefOnCreatedParams(ev))
           IN  [refs |-> r.refs, err |-> FALSE, issued |-> TRUE]

\* variant: a failed create removes the reference it found
createHeadRefOnCreated_reset(rs, ev, fault) ==
    IF fault # "none"
      THEN [refs |-> rs, err |-> TRUE, issued |-> FALSE]
      ELSE LET p == createHeadRefOnCreatedParams(ev)
               r == UpdateRef(rs, p)
           IN  IF r.err
                 THEN [refs |-> [rs EXCEPT ![<<p.WriteParams, p.Type, p.Name>>] = RefNotFound],
                       err |-> TRUE, issued |-> TRUE]
                 ELSE [refs |-> r.refs, err |-> FALSE, issued |-> TRUE]

createHeadRefOnCreated(rs, ev, fault) ==
    IF fault # "none"
      THEN [refs |-> rs, err |-> TRUE, issued |-> FALSE]
      ELSE LET r == UpdateRef(rs, createHeadRefOnCreatedParams(ev))
           IN  [refs |-> r.refs, err |-> r.err, issued |-> TRUE]

\* variant: after a rejected update the handler tries again, expecting the
\* value the reference holds by then
updateHeadRefOnBranchUpdate_retry(rs, ev, fault) ==
    IF fault # "none"
      THEN [refs |-> rs, err |-> TRUE, issued |-> FALSE]
      ELSE LET p == updateHeadRefOnBranchUpdateParams(ev)
               r == UpdateRef(rs, p)
               cur == rs[<<p.WriteParams, p.Type, p.Name>>]
               again == UpdateRef(rs, [p EXCEPT !.OldValue =
                                          IF cur = RefNotFound THEN NoValue ELSE cur])
           IN  IF r.err
                 THEN [refs |-> again.refs, err |-> again.err, issued |-> TRUE]
                 ELSE [refs |-> r.refs, err |-> FALSE, issued |-> TRUE]

updateHeadRefOnBranchUpdate(rs, ev, fault) ==
    IF fault # "none"
      THEN [refs |-> rs, err |-> TRUE, issued |-> FALSE]
      ELSE LET r == UpdateRef(rs, updateHeadRefOnBranchUpdateParams(ev))
           IN  [refs |-> r.refs, err |-> r.err, issued |-> TRUE]

updateHeadRefOnReopen(rs, ev, fault) ==
    IF fault # "none"
      THEN [refs |-> rs, err |-> TRUE, issued |-> FALSE]
      ELSE LET r == UpdateRef(rs, updateHeadRefOnReopenParams(ev))
           IN  [refs |-> r.refs, err |-> r.err, issued |-> TRUE]

(***************************************************************************)
(* Merge verifier (package protection).  Values of the enums it reads.     *)
(***************************************************************************)
PullReqReviewDecisionPending == "pending"
PullReqReviewDecisionReviewed == "reviewed"
PullReqReviewDecisionApproved == "approved"
PullReqReviewDecisionChangeReq == "changereq"

PullReqReviewDecisions ==
    {PullReqReviewDecisionPending, PullReqReviewDecisionReviewed,
     PullReqReviewDecisionApproved, PullReqReviewDecisionChangeReq}

CheckStatusSuccess == "success"
CheckStatusFailure == "failure"

\* enum.MergeMethods: merge commit, rebase and squash
MergeMethods == <<"merge", "rebase", "squash">>
NoMethod == ""

codePullReqApprovalReqMinCount == "pullreq.approvals.require_minimum_count"
codePullReqApprovalReqMinCountLatest == "pullreq.approvals.require_minimum_count:latest_commit"
codePullReqApprovalReqChangeRequested == "pullreq.approvals.require_change_requested"
codePullReqApprovalReqChangeRequestedOldSHA == "pullreq.approvals.require_change_requested_old_SHA"
codePullReqApprovalReqCodeOwnersNoApproval == "pullreq.approvals.require_code_owners:no_approval"
codePullReqApprovalReqCodeOwnersChangeRequested == "pullreq.approvals.require_code_owners:change_requested"
codePullReqApprovalReqCodeOwnersNoLatestApproval == "pullreq.approvals.require_code_owners:no_latest_approval"
codePullReqMergeStrategiesAllowed == "pullreq.merge.strategies_allowed"
codePullReqCommentsReqResolveAll == "pullreq.comments.require_resolve_all"
codePullReqStatusChecksReqIdentifiers == "pullreq.status_checks.required_identifiers"

\* a nil *codeowners.Evaluation
Nil == [nil |-> TRUE]
NoRet == [called |-> FALSE]

\* types.RuleViolations.Addf: one more violation, with its code and the
\* arguments of its message
Addf(violations, code, args) ==
    Append(violations, [Code |-> code, Args |-> args])

SeqContains(seq, x) == \E i \in 1..Len(seq) : seq[i] = x

(***************************************************************************)
(* getCodeOwnerApprovalStatus.  The state of its loops is whether a        *)
(* change request made it return, and the approvers collected so far.      *)
(***************************************************************************)
\* variant: the loop stops at the first approval it meets
RECURSIVE OwnerEvaluationsLoop_approvalWins(_, _, _)
OwnerEvaluationsLoop_approvalWins(evals, i, st) ==
    IF i > Len(evals) THEN st
    ELSE IF evals[i].ReviewDecision = PullReqReviewDecisionApproved
      THEN [st EXCEPT !.approvers = Append(@, evals[i])]
    ELSE IF evals[i].ReviewDecision = PullReqReviewDecisionChangeReq
      THEN [changeReq |-> TRUE, approvers |-> <<>>]
    ELSE OwnerEvaluationsLoop_approvalWins(evals, i + 1, st)

RECURSIVE OwnerEvaluationsLoop(_, _, _)
OwnerEvaluationsLoop(evals, i, st) ==
    IF i > Len(evals) THEN st
    ELSE IF evals[i].ReviewDecision = PullReqReviewDecisionChangeReq
      THEN [changeReq |-> TRUE, approvers |-> <<>>]
    ELSE IF evals[i].ReviewDecision = PullReqReviewDecisionApproved
      THEN OwnerEvaluationsLoop(evals, i + 1,
              [st EXCEPT !.approvers = Append(@, evals[i])])
    ELSE OwnerEvaluationsLoop(evals, i + 1, st)

RECURSIVE UserGroupOwnerEvaluationsLoop(_, _, _)
UserGroupOwnerEvaluationsLoop(groups, g, st) ==
    IF g > Len(groups) \/ st.changeReq THEN st
    ELSE UserGroupOwnerEvaluationsLoop(groups, g + 1,
            OwnerEvaluationsLoop(groups[g].Evaluations, 1, st))

getCodeOwnerApprovalStatus(e) ==
    LET users == OwnerEvaluationsLoop(e.OwnerEvaluations, 1,
                    [changeReq |-> FALSE, approvers |-> <<>>])
        all == IF users.changeReq THEN users
               ELSE UserGroupOwnerEvaluationsLoop(e.UserGroupOwnerEvaluations, 1, users)
    IN  IF all.changeReq
          THEN [decision |-> PullReqReviewDecisionChangeReq, approvers |-> <<>>]
        ELSE IF Len(all.approvers) > 0
          THEN [decision |-> PullReqReviewDecisionApproved, approvers |-> all.approvers]
        ELSE [decision |-> PullReqReviewDecisionPending, approvers |-> <<>>]

(***************************************************************************)
(* DefPullReq.MergeVerify, step by step.                                   *)
(***************************************************************************)
\* variant: every approval is counted, whatever SHA it was given for
RECURSIVE ReviewersLoop_anySHA(_, _, _, _)
ReviewersLoop_anySHA(p, i, k, acc) ==
    IF k > Len(i.Reviewers) THEN acc
    ELSE LET reviewer == i.Reviewers[k]
         IN  ReviewersLoop_anySHA(p, i, k + 1,
               IF reviewer.ReviewDecision = PullReqReviewDecisionApproved
                 THEN [acc EXCEPT !.approvedBy = Append(@, k)]
               ELSE IF reviewer.ReviewDecision = PullReqReviewDecisionChangeReq
                       /\ p.Approvals.RequireNoChangeRequest
                 THEN IF reviewer.SHA = i.PullReq.SourceSHA
                        THEN [acc EXCEPT !.violations =
                                Addf(@, codePullReqApprovalReqChangeRequested, <<k>>)]
                        ELSE [acc EXCEPT !.violations =
                                Addf(@, codePullReqApprovalReqChangeRequestedOldSHA, <<k>>)]
               ELSE acc)

\* pullreq.approvals: the loop over in.Reviewers; acc holds approvedBy (the
\* positions of the counted reviewers) and the violations so far
\* variant: a change request for an older commit is let pass
RECURSIVE ReviewersLoop_oldSHAIgnored(_, _, _, _)
ReviewersLoop_oldSHAIgnored(p, i, k, acc) ==
    IF k > Len(i.Reviewers) THEN acc
    ELSE LET reviewer == i.Reviewers[k]
         IN  ReviewersLoop_oldSHAIgnored(p, i, k + 1,
               IF reviewer.ReviewDecision = PullReqReviewDecisionApproved
                 THEN IF p.Approvals.RequireLatestCommit
                         /\ reviewer.SHA # i.PullReq.SourceSHA
                        THEN acc
                        ELSE [acc EXCEPT !.approvedBy = Append(@, k)]
               ELSE IF /\ reviewer.ReviewDecision = PullReqReviewDecisionChangeReq
                       /\ p.Approvals.RequireNoChangeRequest
                       /\ reviewer.SHA = i.PullReq.SourceSHA
                 THEN [acc EXCEPT !.violations =
                         Addf(@, codePullReqApprovalReqChangeRequested, <<k>>)]
               ELSE acc)

RECURSIVE ReviewersLoop(_, _, _, _)
ReviewersLoop(p, i, k, acc) ==
    IF k > Len(i.Reviewers) THEN acc
    ELSE LET reviewer == i.Reviewers[k]
         IN  ReviewersLoop(p, i, k + 1,
               IF reviewer.ReviewDecision = PullReqReviewDecisionApproved
                 THEN IF p.Approvals.RequireLatestCommit
                         /\ reviewer.SHA # i.PullReq.SourceSHA
                        THEN acc
                        ELSE [acc EXCEPT !.approvedBy = Append(@, k)]
               ELSE IF reviewer.ReviewDecision = PullReqReviewDecisionChangeReq
                 THEN IF p.Approvals.RequireNoChangeRequest
                        THEN IF reviewer.SHA = i.PullReq.SourceSHA
                               THEN [acc EXCEPT !.violations =
                                       Addf(@, codePullReqApprovalReqChangeRequested, <<k>>)]
                               ELSE [acc EXCEPT !.violations =
                                       Addf(@, codePullReqApprovalReqChangeRequestedOldSHA, <<k>>)]
                        ELSE acc
               ELSE acc)

\* variant: as many approvals as the minimum are still too few
MinimumCountStep_inclusive(p, acc) ==
    IF Len(acc.approvedBy) <= p.Approvals.RequireMinimumCount
      THEN [acc EXCEPT !.violations =
              Addf(@, codePullReqApprovalReqMinCount,
                   <<Len(acc.approvedBy), p.Approvals.RequireMinimumCount>>)]
      ELSE acc

\* the comparison of len(approvedBy) with RequireMinimumCount
MinimumCountStep(p, acc) ==
    IF Len(acc.approvedBy) < p.Approvals.RequireMinimumCount
      THEN IF p.Approvals.RequireLatestCommit
             THEN [acc EXCEPT !.violations =
                     Addf(@, codePullReqApprovalReqMinCountLatest,
                          <<Len(acc.approvedBy), p.Approvals.RequireMinimumCount>>)]
             ELSE [acc EXCEPT !.violations =
                     Addf(@, codePullReqApprovalReqMinCount,
                          <<Len(acc.approvedBy), p.Approvals.RequireMinimumCount>>)]
      ELSE acc

\* variant: an approval of any commit will do
RECURSIVE EvaluationEntriesLoop_anyCommit(_, _, _, _, _)
EvaluationEntriesLoop_anyCommit(p, i, entries, k, violations) ==
    IF k > Len(entries) THEN violations
    ELSE LET st == getCodeOwnerApprovalStatus(entries[k])
         IN  EvaluationEntriesLoop_anyCommit(p, i, entries, k + 1,
               IF st.decision = PullReqReviewDecisionPending
                 THEN Addf(violations, codePullReqApprovalReqCodeOwnersNoApproval, <<k>>)
               ELSE IF st.decision = PullReqReviewDecisionChangeReq
                 THEN Addf(violations, codePullReqApprovalReqCodeOwnersChangeRequested, <<k>>)
               ELSE violations)

\* the loop over in.CodeOwners.EvaluationEntries
RECURSIVE EvaluationEntriesLoop(_, _, _, _, _)
EvaluationEntriesLoop(p, i, entries, k, violations) ==
    IF k > Len(entries) THEN violations
    ELSE LET st == getCodeOwnerApprovalStatus(entries[k])
             latestSHAApproved ==
                \E a \in 1..Len(st.approvers) :
                    st.approvers[a].ReviewSHA = i.PullReq.SourceSHA
         IN  EvaluationEntriesLoop(p, i, entries, k + 1,
               IF st.decision = PullReqReviewDecisionPending
                 THEN Addf(violations, codePullReqApprovalReqCodeOwnersNoApproval, <<k>>)
               ELSE IF st.decision = PullReqReviewDecisionChangeReq
                 THEN Addf(violations, codePullReqApprovalReqCodeOwnersChangeRequested, <<k>>)
               ELSE IF ~p.Approvals.RequireLatestCommit
                 THEN violations
               ELSE IF ~latestSHAApproved
                 THEN Addf(violations, codePullReqApprovalReqCodeOwnersNoLatestApproval, <<k>>)
               ELSE violations)

\* variant: a repository owner allowed to bypass is not held to the rule
CommentsStep_ownerBypass(p, i, violations) ==
    IF /\ p.Comments.RequireResolveAll
       /\ i.PullReq.UnresolvedCount > 0
       /\ ~(i.AllowBypass /\ i.IsRepoOwner)
      THEN Addf(violations, codePullReqCommentsReqResolveAll,
                <<i.PullReq.UnresolvedCount>>)
      ELSE violations

\* pullreq.comments
CommentsStep(p, i, violations) ==
    IF p.Comments.RequireResolveAll /\ i.PullReq.UnresolvedCount > 0
      THEN Addf(violations, codePullReqCommentsReqResolveAll,
                <<i.PullReq.UnresolvedCount>>)
      ELSE violations

\* pullreq.status_checks: the inner loop stops at the first check result
\* that carries the required identifier
Succeeded(results, requiredIdentifier) ==
    LET hits == {k \in 1..Len(results) : results[k].Identifier = requiredIdentifier}
    IN  IF hits = {} THEN FALSE
        ELSE LET first == CHOOSE k \in hits : \A m \in hits : k <= m
             IN  results[first].Status = CheckStatusSuccess

RECURSIVE ViolatingStatusCheckIdentifiers(_, _, _, _)
ViolatingStatusCheckIdentifiers(required, results, k, acc) ==
    IF k > Len(required) THEN acc
    ELSE ViolatingStatusCheckIdentifiers(required, results, k + 1,
            IF Succeeded(results, required[k]) THEN acc
            ELSE Append(acc, required[k]))

StatusChecksStep(p, i, violations) ==
    LET violating == ViolatingStatusCheckIdentifiers(
                        p.StatusChecks.RequireIdentifiers, i.CheckResults, 1, <<>>)
    IN  IF Len(violating) > 0
          THEN Addf(violations, codePullReqStatusChecksReqIdentifiers, violating)
          ELSE violations

\* pullreq.merge: the allowed methods of the output
AllowedMethods(p, i) ==
    IF Len(p.Merge.StrategiesAllowed) > 0 /\ i.Method = NoMethod
      THEN p.Merge.StrategiesAllowed
    ELSE IF i.Method = NoMethod THEN MergeMethods
    ELSE <<>>

\* variant: an empty list of allowed strategies allows none
MergeStep_emptyAllowsNone(p, i, violations) ==
    IF /\ i.Method # NoMethod
       /\ ~SeqContains(p.Merge.StrategiesAllowed, i.Method)
      THEN Addf(violations, codePullReqMergeStrategiesAllowed,
                <<i.Method, p.Merge.StrategiesAllowed>>)
      ELSE violations

MergeStep(p, i, violations) ==
    IF /\ Len(p.Merge.StrategiesAllowed) > 0
       /\ i.Method # NoMethod
       /\ ~SeqContains(p.Merge.StrategiesAllowed, i.Method)
      THEN Addf(violations, codePullReqMergeStrategiesAllowed,
                <<i.Method, p.Merge.StrategiesAllowed>>)
      ELSE violations

\* variant: the output never asks for the deletion of the source branch
Output_keepBranch(p, i) ==
    [DeleteSourceBranch |-> FALSE, AllowedMethods |-> AllowedMethods(p, i)]

\* the MergeVerifyOutput out
Output(p, i) ==
    [DeleteSourceBranch |-> p.Merge.DeleteBranch,
     AllowedMethods |-> AllowedMethods(p, i)]

\* The whole function.  A call either panics (in.CodeOwners is dereferenced
\* while nil) or returns the output, the list of RuleViolations (empty, or
\* one RuleViolations value holding all violations) and a nil error;
\* approvedBy is the value of the local variable of that name.
MergeVerify(p, i) ==
    LET approvals == MinimumCountStep(p,
                        ReviewersLoop(p, i, 1, [approvedBy |-> <<>>, violations |-> <<>>]))
        derefNil == p.Approvals.RequireCodeOwners /\ i.CodeOwners = Nil
        owners == IF p.Approvals.RequireCodeOwners /\ ~derefNil
                    THEN EvaluationEntriesLoop(p, i, i.CodeOwners.EvaluationEntries, 1,
                                               approvals.violations)
                    ELSE approvals.violations
        violations == MergeStep(p, i, StatusChecksStep(p, i, CommentsStep(p, i, owners)))
    IN  IF derefNil
          THEN [called |-> TRUE, panic |-> TRUE, approvedBy |-> approvals.approvedBy]
          ELSE [called |-> TRUE, panic |-> FALSE, approvedBy |-> approvals.approvedBy,
                out |-> Output(p, i),
                violations |-> IF Len(violations) > 0
                                 THEN <<[Violations |-> violations]>>
                                 ELSE <<>>,
                err |-> FALSE]

\* the loop of RequiredChecks over v.StatusChecks.RequireIdentifiers, from
\* position k on; m is the map's set of keys
RECURSIVE RequiredIdentifiersLoop(_, _, _)
RequiredIdentifiersLoop(identifiers, k, m) ==
    IF k > Len(identifiers) THEN m
    ELSE RequiredIdentifiersLoop(identifiers, k + 1, m \cup {identifiers[k]})

\* variant: nothing is required of the owner of the repository
RequiredChecks_ownerExempt(p, i) ==
    [called |-> TRUE,
     out |-> [RequiredIdentifiers |->
                IF i.IsRepoOwner THEN {}
                ELSE RequiredIdentifiersLoop(p.StatusChecks.RequireIdentifiers, 1, {}),
              BypassableIdentifiers |-> {}],
     err |-> FALSE]

\* DefPullReq.RequiredChecks: the output, with the keys of its maps, and
\* the error
RequiredChecks(p, i) ==
    [called |-> TRUE,
     out |-> [RequiredIdentifiers |->
                RequiredIdentifiersLoop(p.StatusChecks.RequireIdentifiers, 1, {}),
              BypassableIdentifiers |-> {}],
     err |-> FALSE]

(***************************************************************************)
(* Post-receive hook (package githook).  A reference name is the sequence  *)
(* of its components between slashes, a message the sequence of its parts. *)
(***************************************************************************)
gitReferenceNamePrefixBranch == <<"refs", "heads">>
gitReferenceNamePrefixTag == <<"refs", "tags">>

\* types.NilSHA
NilSHA == 0

\* strings.HasPrefix(ref, prefix), the prefix ending in a slash
HasPrefix(ref, prefix) ==
    /\ Len(ref) > Len(prefix)
    /\ SubSeq(ref, 1, Len(prefix)) = prefix

\* what git.IsAncestor may return: result.Ancestor and whether err is set;
\* NoQuery where it is not called
IsAncestorOutputs == [Ancestor : BOOLEAN, err : BOOLEAN]
NoQuery == [none |-> TRUE]

\* variant: an update whose ancestry could not be checked is not forced
forced_unlessError(answer) == ~answer.err /\ ~answer.Ancestor

\* forced := err != nil || !result.Ancestor
forced(answer) == answer.err \/ ~answer.Ancestor

\* variant: the deletion is looked for first
reportBranchEvent_deletedFirst(branchUpdate, answer) ==
    IF branchUpdate.New = NilSHA
      THEN [Event |-> "BranchDeleted", Ref |-> branchUpdate.Ref,
            SHA |-> branchUpdate.Old]
    ELSE IF branchUpdate.Old = NilSHA
      THEN [Event |-> "BranchCreated", Ref |-> branchUpdate.Ref,
            SHA |-> branchUpdate.New]
    ELSE [Event |-> "BranchUpdated", Ref |-> branchUpdate.Ref,
          OldSHA |-> branchUpdate.Old, NewSHA |-> branchUpdate.New,
          Forced |-> forced(answer)]

\* the call reportBranchEvent makes on the reporter
reportBranchEvent(branchUpdate, answer) ==
    IF branchUpdate.Old = NilSHA
      THEN [Event |-> "BranchCreated", Ref |-> branchUpdate.Ref,
            SHA |-> branchUpdate.New]
    ELSE IF branchUpdate.New = NilSHA
      THEN [Event |-> "BranchDeleted", Ref |-> branchUpdate.Ref,
            SHA |-> branchUpdate.Old]
    ELSE [Event |-> "BranchUpdated", Ref |-> branchUpdate.Ref,
          OldSHA |-> branchUpdate.Old, NewSHA |-> branchUpdate.New,
          Forced |-> forced(answer)]

\* the call reportTagEvent makes on the reporter
reportTagEvent(tagUpdate) ==
    IF tagUpdate.Old = NilSHA
      THEN [Event |-> "TagCreated", Ref |-> tagUpdate.Ref, SHA |-> tagUpdate.New]
    ELSE IF tagUpdate.New = NilSHA
      THEN [Event |-> "TagDeleted", Ref |-> tagUpdate.Ref, SHA |-> tagUpdate.Old]
    ELSE [Event |-> "TagUpdated", Ref |-> tagUpdate.Ref,
          OldSHA |-> tagUpdate.Old, NewSHA |-> tagUpdate.New, Forced |-> TRUE]

\* reportBranchEvent asks git.IsAncestor about this update
QueriesAncestry(refUpdate) ==
    /\ HasPrefix(refUpdate.Ref, gitReferenceNamePrefixBranch)
    /\ refUpdate.Old # NilSHA
    /\ refUpdate.New # NilSHA

\* reportReferenceEvents: the loop over in.RefUpdates, from position k on
RECURSIVE reportReferenceEvents(_, _, _, _)
reportReferenceEvents(refUpdates, answers, k, events) ==
    IF k > Len(refUpdates) THEN events
    ELSE reportReferenceEvents(refUpdates, answers, k + 1,
            IF HasPrefix(refUpdates[k].Ref, gitReferenceNamePrefixBranch)
              THEN Append(events, reportBranchEvent(refUpdates[k], answers[k]))
            ELSE IF HasPrefix(refUpdates[k].Ref, gitReferenceNamePrefixTag)
              THEN Append(events, reportTagEvent(refUpdates[k]))
            ELSE events)

\* the filter's page size
ListSize == 2

\* pullreqStore.List with the filter of suggestPullRequest: the first
\* ListSize of the open pull requests with the source branch, oldest first
List(pullReqs, sourceBranch) ==
    LET found == SelectSeq(pullReqs,
                    LAMBDA pr : pr.SourceBranch = sourceBranch /\ pr.State = "open")
    IN  IF Len(found) > ListSize THEN SubSeq(found, 1, ListSize) ELSE found

\* a message: its format and what is printed into it
Message(format, branch, number, title, base) ==
    [Format |-> format, Branch |-> branch, Number |-> number, Title |-> title,
     Base |-> base]

\* variant: one line per pull request, without its URL
RECURSIVE OpenPRMessages_noURL(_, _)
OpenPRMessages_noURL(prs, k) ==
    IF k > Len(prs) THEN <<>>
    ELSE <<Message("  (#%d) %s", <<>>, prs[k].Number, prs[k].Title, <<>>)>>
            \o OpenPRMessages_noURL(prs, k + 1)

\* msgs[2*i+1], msgs[2*i+2] for the pull requests from position k on
RECURSIVE OpenPRMessages(_, _)
OpenPRMessages(prs, k) ==
    IF k > Len(prs) THEN <<>>
    ELSE <<Message("  (#%d) %s", <<>>, prs[k].Number, prs[k].Title, <<>>),
           Message("    GenerateUIPRURL", <<>>, prs[k].Number, "", <<>>)>>
            \o OpenPRMessages(prs, k + 1)

suggestPullRequest(h, branchName, messages) ==
    IF branchName = h.DefaultBranch THEN messages
    ELSE IF h.ListErr THEN messages
    ELSE LET prs == List(h.PullReqs, branchName)
         IN  IF Len(prs) > 0
               THEN messages
                      \o <<Message("Branch %q has open PRs:", branchName, 0, "", <<>>)>>
                      \o OpenPRMessages(prs, 1)
               ELSE messages
                      \o <<Message("Create a new PR for branch %q", branchName, 0, "",
                                   <<>>),
                           Message("  GenerateUICompareURL", branchName, 0, "",
                                   h.DefaultBranch)>>

\* variant: a deleted branch gets a suggestion too
handlePRMessaging_deletedToo(h, messages) ==
    IF \/ Len(h.RefUpdates) # 1
       \/ ~HasPrefix(h.RefUpdates[1].Ref, gitReferenceNamePrefixBranch)
      THEN messages
      ELSE suggestPullRequest(h,
              SubSeq(h.RefUpdates[1].Ref, Len(gitReferenceNamePrefixBranch) + 1,
                     Len(h.RefUpdates[1].Ref)),
              messages)

handlePRMessaging(h, messages) ==
    IF \/ Len(h.RefUpdates) # 1
       \/ ~HasPrefix(h.RefUpdates[1].Ref, gitReferenceNamePrefixBranch)
       \/ h.RefUpdates[1].New = NilSHA
      THEN messages
      ELSE suggestPullRequest(h,
              SubSeq(h.RefUpdates[1].Ref, Len(gitReferenceNamePrefixBranch) + 1,
                     Len(h.RefUpdates[1].Ref)),
              messages)

\* the reporter of the git events: a publication that fails is logged by
\* the reporter, which returns nothing to reportBranchEvent and
\* reportTagEvent; the positions of the ref updates whose event was lost
LostEvents(h) ==
    {k \in h.PublishErrs :
        /\ k \in 1..Len(h.RefUpdates)
        /\ \/ HasPrefix(h.RefUpdates[k].Ref, gitReferenceNamePrefixBranch)
           \/ HasPrefix(h.RefUpdates[k].Ref, gitReferenceNamePrefixTag)}

\* whether git.IsAncestor returned an error to reportBranchEvent
AncestryFailed(answers) ==
    \E k \in DOMAIN answers : answers[k] # NoQuery /\ answers[k].err

\* variant: the failures of the best-effort steps are returned
PostReceive_propagating(h, answers) ==
    IF ~h.Access
      THEN [called |-> TRUE, err |-> TRUE, events |-> <<>>, answers |-> answers,
            lost |-> {}, out |-> [Messages |-> <<>>]]
      ELSE [called |-> TRUE,
            err |-> AncestryFailed(answers) \/ LostEvents(h) # {} \/ h.ListErr,
            events |-> reportReferenceEvents(h.RefUpdates, answers, 1, <<>>),
            answers |-> answers,
            lost |-> LostEvents(h),
            out |-> [Messages |-> handlePRMessaging(h, <<>>)]]

\* PostReceive: the access check, the events reported, the output
PostReceive(h, answers) ==
    IF ~h.Access
      THEN [called |-> TRUE, err |-> TRUE, events |-> <<>>, answers |-> answers,
            lost |-> {}, out |-> [Messages |-> <<>>]]
      ELSE [called |-> TRUE, err |-> FALSE,
            events |-> reportReferenceEvents(h.RefUpdates, answers, 1, <<>>),
            answers |-> answers,
            lost |-> LostEvents(h),
            out |-> [Messages |-> handlePRMessaging(h, <<>>)]]

(***************************************************************************)
(* The JSON form of DefStatusChecks.                                       *)
(***************************************************************************)
\* a []string: whether it is nil, and its elements
Slice(items) == [isNil |-> FALSE, items |-> items]
NilSlice == [isNil |-> TRUE, items |-> <<>>]

\* the value of a key of a JSON object: the key is absent, null, or an array
Absent == [kind |-> "absent", items |-> <<>>]
Null == [kind |-> "null", items |-> <<>>]
Array(items) == [kind |-> "array", items |-> items]

\* a document that is no JSON object of string arrays
Malformed == [valid |-> FALSE, require_identifiers |-> Absent, require_uids |-> Absent]

\* json.Marshal of a []string field: with omitempty the key is left out
\* when the slice has no element; without it a nil slice is written as null
MarshalSlice(slice, omitempty) ==
    IF omitempty /\ Len(slice.items) = 0 THEN Absent
    ELSE IF slice.isNil THEN Null
    ELSE Array(slice.items)

\* json.Unmarshal into a []string field that is nil before
UnmarshalSlice(value) ==
    IF value.kind = "array" THEN Slice(value.items) ELSE NilSlice

\* DefStatusChecks.MarshalJSON
MarshalJSON(c) ==
    [valid |-> TRUE,
     require_identifiers |-> MarshalSlice(c.RequireIdentifiers, TRUE),
     require_uids |-> MarshalSlice(c.RequireIdentifiers, FALSE)]

\* variant: the legacy key is not read
UnmarshalJSON_noLegacy(data) ==
    IF ~data.valid
      THEN [c |-> [RequireIdentifiers |-> NilSlice], err |-> TRUE]
      ELSE [c |-> [RequireIdentifiers |-> UnmarshalSlice(data.require_identifiers)],
            err |-> FALSE]

\* DefStatusChecks.UnmarshalJSON on a zero DefStatusChecks: the value after
\* the call and whether it failed
UnmarshalJSON(data) ==
    IF ~data.valid
      THEN [c |-> [RequireIdentifiers |-> NilSlice], err |-> TRUE]
      ELSE LET alias == UnmarshalSlice(data.require_identifiers)
               RequireUIDs == UnmarshalSlice(data.require_uids)
           IN  [c |-> [RequireIdentifiers |->
                         IF Len(alias.items) = 0 THEN RequireUIDs ELSE alias],
                err |-> FALSE]

(***************************************************************************)
(* Controller.Update of the pull requests (pr_update.go).  A string is the *)
(* sequence of its characters.                                             *)
(***************************************************************************)
RECURSIVE TrimLeft(_)
TrimLeft(str) ==
    IF str # <<>> /\ Head(str) = " " THEN TrimLeft(Tail(str)) ELSE str

RECURSIVE TrimRight(_)
TrimRight(str) ==
    IF str # <<>> /\ str[Len(str)] = " "
      THEN TrimRight(SubSeq(str, 1, Len(str) - 1))
      ELSE str

\* strings.TrimSpace
TrimSpace(str) == TrimRight(TrimLeft(str))

\* variant: the input is taken as it is
Check_untrimmed(input) ==
    IF input.Title = <<>>
      THEN [Title |-> input.Title, Description |-> input.Description, err |-> TRUE]
      ELSE [Title |-> input.Title, Description |-> input.Description, err |-> FALSE]

\* UpdateInput.Check: the input after the call and whether it is rejected
Check(input) ==
    IF TrimSpace(input.Title) = <<>>
      THEN [Title |-> TrimSpace(input.Title), Description |-> input.Description,
            err |-> TRUE]
      ELSE [Title |-> TrimSpace(input.Title),
            Description |-> TrimSpace(input.Description), err |-> FALSE]

\* variant: every edit counts as an activity
mutateFn_everyEdit(pr, input, needToWriteActivity, now) ==
    [pr EXCEPT !.Title = input.Title, !.Description = input.Description,
               !.Edited = now, !.ActivitySeq = @ + 1]

\* the mutator Update hands to UpdateOptLock
mutateFn(pr, input, needToWriteActivity, now) ==
    [pr EXCEPT !.Title = input.Title, !.Description = input.Description,
               !.Edited = now,
               !.ActivitySeq = IF needToWriteActivity THEN @ + 1 ELSE @]

\* pullreqStore.UpdateOptLock: the compare-and-swap of the store.  The
\* mutated record is written, with the next version, if the stored version
\* is still the one of pr; otherwise the store is left alone and the
\* conflict is the error.
UpdateOptLock(stored, pr, mutated) ==
    IF stored.Version # pr.Version
      THEN [store |-> stored, pr |-> Nil, err |-> TRUE]
      ELSE [store |-> [mutated EXCEPT !.Version = @ + 1],
            pr |-> [mutated EXCEPT !.Version = @ + 1], err |-> FALSE]

\* variant: the error of UpdateOptLock is dropped
compareAndUpdate_errorDropped(stored, pr, input, now) ==
    IF pr.Title = input.Title /\ pr.Description = input.Description
      THEN [store |-> stored, pr |-> pr, err |-> FALSE, written |-> FALSE,
            needToWriteActivity |-> FALSE]
      ELSE LET needToWriteActivity == input.Title # pr.Title
               res == UpdateOptLock(stored, pr,
                         mutateFn(pr, input, needToWriteActivity, now))
           IN  [store |-> res.store, pr |-> IF res.err THEN pr ELSE res.pr,
                err |-> FALSE, written |-> ~res.err,
                needToWriteActivity |-> needToWriteActivity /\ ~res.err]

\* Update from the comparison with the record read to the return after
\* UpdateOptLock: the store, what is returned so far, whether the store
\* accepted a write and whether an activity is to be written
compareAndUpdate(stored, pr, input, now) ==
    IF pr.Title = input.Title /\ pr.Description = input.Description
      THEN [store |-> stored, pr |-> pr, err |-> FALSE, written |-> FALSE,
            needToWriteActivity |-> FALSE]
      ELSE LET needToWriteActivity == input.Title # pr.Title
               res == UpdateOptLock(stored, pr,
                         mutateFn(pr, input, needToWriteActivity, now))
           IN  [store |-> res.store, pr |-> res.pr, err |-> res.err,
                written |-> ~res.err,
                needToWriteActivity |-> needToWriteActivity /\ ~res.err]

\* the payload of the activity Update writes after a change of the title
PullRequestActivityPayloadTitleChange(oldTitle, pr) ==
    [Old |-> oldTitle, New |-> pr.Title, Order |-> pr.ActivitySeq]

(***************************************************************************)
(* Inputs of the merge verifier, drawn from bounded sets.                  *)
(***************************************************************************)
SeqUpTo(S, n) == UNION {[1..k -> S] : k \in 0..n}

\* the ways to cut seq into at most g consecutive, possibly empty, chunks
RECURSIVE Splits(_, _)
Splits(seq, g) ==
    (IF Len(seq) = 0 THEN {<<>>} ELSE {})
        \cup (IF g = 0 THEN {}
              ELSE UNION {{<<SubSeq(seq, 1, c)>> \o rest :
                              rest \in Splits(SubSeq(seq, c + 1, Len(seq)), g - 1)} :
                          c \in 0..Len(seq)})

ReviewerValues == [ReviewDecision : PullReqReviewDecisions, SHA : SHAs]
OwnerEvaluationValues == [ReviewDecision : PullReqReviewDecisions, ReviewSHA : SHAs]

\* evaluations of every decision, all given for one commit
DecisionValues == [ReviewDecision : PullReqReviewDecisions, ReviewSHA : {1}]

\* the evaluation entries with at most n evaluations, spread over the users
\* and over at most MaxGroups user groups
EvaluationEntries(n) ==
    UNION {UNION {{[OwnerEvaluations |-> SubSeq(flat, 1, a),
                    UserGroupOwnerEvaluations |->
                        [g \in 1..Len(groups) |-> [Evaluations |-> groups[g]]]] :
                      groups \in Splits(SubSeq(flat, a + 1, Len(flat)), MaxGroups)} :
                  a \in 0..Len(flat)} :
           flat \in SeqUpTo(DecisionValues, n)}

\* DefApprovals.Sanitize accepts the approvals
ApprovalsSanitized(a) ==
    /\ ~(a.RequireMinimumCount < 0)
    /\ ~(a.RequireLatestCommit /\ a.RequireMinimumCount = 0 /\ ~a.RequireCodeOwners)

DefPullReq(approvals, resolveAll, identifiers, strategies, deleteBranch) ==
    [Approvals |-> approvals,
     Comments |-> [RequireResolveAll |-> resolveAll],
     StatusChecks |-> [RequireIdentifiers |-> identifiers],
     Merge |-> [StrategiesAllowed |-> strategies, DeleteBranch |-> deleteBranch]]

\* the order of the strings that slices.Sort goes by
StringOrder == <<"bogus", "merge", "rebase", "squash">>

StringRank(str) == CHOOSE k \in 1..Len(StringOrder) : StringOrder[k] = str

\* slices.Sort: str is put before the first element that is greater
RECURSIVE SortedInsert(_, _)
SortedInsert(sorted, str) ==
    IF sorted = <<>> THEN <<str>>
    ELSE IF StringRank(str) <= StringRank(Head(sorted)) THEN <<str>> \o sorted
    ELSE <<Head(sorted)>> \o SortedInsert(Tail(sorted), str)

RECURSIVE Sort(_)
Sort(seq) ==
    IF seq = <<>> THEN <<>>
    ELSE SortedInsert(Sort(SubSeq(seq, 1, Len(seq) - 1)), seq[Len(seq)])

\* enum.MergeMethod.Sanitize: whether the strategy is a merge method
MergeMethodSanitize(strategy) == SeqContains(MergeMethods, strategy)

\* variant: a strategy may be listed twice
RECURSIVE StrategiesLoop_duplicatesKept(_, _, _)
StrategiesLoop_duplicatesKept(strategies, k, m) ==
    IF k > Len(strategies) THEN FALSE
    ELSE IF ~MergeMethodSanitize(strategies[k]) THEN TRUE
    ELSE StrategiesLoop_duplicatesKept(strategies, k + 1, m \cup {strategies[k]})

\* the loop of DefMerge.Sanitize from position k on, m the strategies seen:
\* whether it returns an error
RECURSIVE StrategiesLoop(_, _, _)
StrategiesLoop(strategies, k, m) ==
    IF k > Len(strategies) THEN FALSE
    ELSE IF ~MergeMethodSanitize(strategies[k]) THEN TRUE
    ELSE IF strategies[k] \in m THEN TRUE
    ELSE StrategiesLoop(strategies, k + 1, m \cup {strategies[k]})

\* DefMerge.Sanitize: the rule after the call and whether it failed
DefMergeSanitize(merge) ==
    IF StrategiesLoop(merge.StrategiesAllowed, 1, {})
      THEN [Merge |-> merge, err |-> TRUE]
      ELSE [Merge |-> [merge EXCEPT !.StrategiesAllowed = Sort(@)], err |-> FALSE]

\* DefPullReq.Sanitize: the rule after the call and the error; identifiersErr
\* is whether validateIdentifierSlice rejects the required identifiers
Sanitize(p, identifiersErr) ==
    IF ~ApprovalsSanitized(p.Approvals)
      THEN [called |-> TRUE, v |-> p, err |-> "approvals"]
    ELSE IF identifiersErr
      THEN [called |-> TRUE, v |-> p, err |-> "status checks"]
    ELSE IF DefMergeSanitize(p.Merge).err
      THEN [called |-> TRUE, v |-> p, err |-> "merge"]
    ELSE [called |-> TRUE, v |-> [p EXCEPT !.Merge = DefMergeSanitize(p.Merge).Merge],
          err |-> ""]

\* a nil *types.Principal
NoActor == 0

MergeVerifyInput(sourceSHA, unresolved, reviewers, method, results, owners) ==
    [PullReq |-> [SourceSHA |-> sourceSHA, UnresolvedCount |-> unresolved],
     Reviewers |-> reviewers,
     Method |-> method,
     CheckResults |-> results,
     CodeOwners |-> owners,
     Actor |-> NoActor,
     AllowBypass |-> FALSE,
     IsRepoOwner |-> FALSE]

NoEntries == [EvaluationEntries |-> <<>>]
EmptyEntry == [OwnerEvaluations |-> <<>>, UserGroupOwnerEvaluations |-> <<>>]

DefaultPolicy ==
    DefPullReq([RequireCodeOwners |-> FALSE, RequireMinimumCount |-> 0,
                RequireLatestCommit |-> FALSE, RequireNoChangeRequest |-> FALSE],
               FALSE, <<>>, <<>>, FALSE)
DefaultInput == MergeVerifyInput(1, 0, <<>>, NoMethod, <<>>, NoEntries)

\* no second call is made
NoInput == [none |-> TRUE]

\* the verifier is not in use
VerifyIdle ==
    /\ v = DefaultPolicy
    /\ in = DefaultInput
    /\ ret = NoRet
    /\ entry = EmptyEntry
    /\ status = NoRet
    /\ in2 = NoInput
    /\ ret2 = NoRet

\* a push without ref updates
NoPush ==
    [Access |-> TRUE, RefUpdates |-> <<>>, DefaultBranch |-> <<"main">>,
     PullReqs |-> <<>>, ListErr |-> FALSE, PublishErrs |-> {}]

\* the hook is not in use
HookIdle ==
    /\ hookIn = NoPush
    /\ hookOut = NoRet

\* no policy document is in use
JsonIdle ==
    /\ checks = [RequireIdentifiers |-> NilSlice]
    /\ document = Malformed
    /\ decoded = NoRet
    /\ roundTrip = NoRet

\* the callers of Controller.Update
Callers == 1..NumCallers

\* the pull request as it was created
NewPullReq ==
    [Title |-> <<"a">>, Description |-> <<>>, Version |-> 0, Edited |-> 0,
     ActivitySeq |-> 0, SourceRepoID |-> 1, TargetRepoID |-> 1]

\* a caller that has not called: nothing read, nothing returned
NoCall ==
    [pc |-> "idle", raw |-> Nil, input |-> Nil, read |-> Nil, pr |-> Nil,
     written |-> FALSE, ret |-> NoRet]

\* no call of Update
UpdateIdle ==
    /\ pullreqStore = NewPullReq
    /\ activityStore = <<>>
    /\ update = [c \in Callers |-> NoCall]

(***************************************************************************)
(* State of the synchronizer and of its environment.                       *)
(***************************************************************************)
HeadRef(n) == <<TargetRepo, RefTypePullReqHead, n>>

\* a PR either does not exist yet, or it is open with its head ref in sync
\* (its earlier events were consumed and are no longer in the stream)
InitHeadRef ==
    /\ \E src \in [PRNumbers -> SHAs \cup {NoValue}] :
          /\ pullreq = [n \in PRNumbers |->
                IF src[n] = NoValue
                  THEN [State |-> "none", SourceSHA |-> NoValue]
                  ELSE [State |-> "open", SourceSHA |-> src[n]]]
          /\ refs = [r \in RefNames |->
                IF r[2] # RefTypePullReqHead THEN 1
                ELSE IF src[r[3]] = NoValue THEN RefNotFound ELSE src[r[3]]]
    /\ published = <<>>
    /\ deliveries = <<>>
    /\ worker = [w \in Workers |-> Idle]
    /\ lastH = [n \in PRNumbers |-> NoHandling]
    /\ faulted = [n \in PRNumbers |-> FALSE]
    /\ VerifyIdle
    /\ HookIdle
    /\ UpdateIdle
    /\ JsonIdle

Publish(ev) ==
    /\ Len(published) < MaxEvents
    /\ published' = Append(published, ev)
    /\ deliveries' = Append(deliveries, 0)

\* a pull request is opened: the PR record is created and Created is published
CreatePR(n, s) ==
    /\ pullreq[n].State = "none"
    /\ pullreq' = [pullreq EXCEPT ![n] = [State |-> "open", SourceSHA |-> s]]
    /\ Publish(CreatedPayload(n, s))
    /\ UNCHANGED <<refs, worker, lastH, faulted, verifyVars, hookVars, updateVars, jsonVars>>

\* new commits reach the source branch of an open PR
PushToSource(n, s) ==
    /\ pullreq[n].State = "open"
    /\ s # pullreq[n].SourceSHA
    /\ pullreq' = [pullreq EXCEPT ![n].SourceSHA = s]
    /\ Publish(BranchUpdatedPayload(n, pullreq[n].SourceSHA, s))
    /\ UNCHANGED <<refs, worker, lastH, faulted, verifyVars, hookVars, updateVars, jsonVars>>

ClosePR(n) ==
    /\ pullreq[n].State = "open"
    /\ Len(published) < MaxEvents
    /\ pullreq' = [pullreq EXCEPT ![n].State = "closed"]
    /\ UNCHANGED <<refs, published, deliveries, worker, lastH, faulted, verifyVars, hookVars, updateVars, jsonVars>>

\* a closed PR is reopened at the commit its source branch has by then
ReopenPR(n, s) ==
    /\ pullreq[n].State = "closed"
    /\ pullreq' = [pullreq EXCEPT ![n] = [State |-> "open", SourceSHA |-> s]]
    /\ Publish(ReopenedPayload(n, s))
    /\ UNCHANGED <<refs, worker, lastH, faulted, verifyVars, hookVars, updateVars, jsonVars>>

\* the event reader hands a published event to an idle worker (the workers are
\* interchangeable: the first idle one takes it); an event may be delivered
\* more than once and in any order
Deliver(w, i) ==
    /\ worker[w] = Idle
    /\ \A x \in Workers : x < w => worker[x] # Idle
    /\ i \in 1..Len(published)
    /\ deliveries[i] < MaxDeliveries
    /\ worker' = [worker EXCEPT ![w] = i]
    /\ deliveries' = [deliveries EXCEPT ![i] = @ + 1]
    /\ UNCHANGED <<pullreq, refs, published, lastH, faulted, verifyVars, hookVars, updateVars, jsonVars>>

\* worker w completes the handler of its event with result res.  The record
\* of the handling also tells how it relates to the handling completed
\* before it for the same PR:
\*   same       that one handled the same event,
\*   prevIssued that one issued UpdateRef,
\*   prevAfter  the value of the head ref when that one returned,
\*   prevWon    that one was a successful BranchUpdated handling of an event
\*              carrying the same OldSHA as this BranchUpdated event,
\*   raced      this worker already held its event when that one completed.
Complete(w, res) ==
    LET i == worker[w]
        ev == published[i]
        n == ev.Number
        prev == lastH[n]
        some == prev.kind # "none"
    IN  /\ refs' = res.refs
        /\ worker' = [worker EXCEPT ![w] = Idle]
        /\ lastH' = [lastH EXCEPT ![n] =
              [kind |-> ev.Kind, ev |-> i,
               before |-> refs[HeadRef(n)], after |-> res.refs[HeadRef(n)],
               err |-> res.err, issued |-> res.issued,
               others |-> {x \in Workers : x # w /\ worker[x] # Idle},
               same |-> some /\ prev.ev = i,
               prevIssued |-> some /\ prev.issued,
               prevAfter |-> IF some THEN prev.after ELSE refs[HeadRef(n)],
               prevWon |-> /\ some
                           /\ prev.kind = KindBranchUpdated
                           /\ ev.Kind = KindBranchUpdated
                           /\ published[prev.ev].OldSHA = ev.OldSHA
                           /\ ~prev.err,
               raced |-> some /\ w \in prev.others]]
        /\ faulted' = [faulted EXCEPT ![n] = @ \/ ~res.issued]
        /\ UNCHANGED <<pullreq, published, deliveries, verifyVars, hookVars, updateVars, jsonVars>>

HandleCreated(w) ==
    /\ worker[w] # Idle
    /\ published[worker[w]].Kind = KindCreated
    /\ \E fault \in Faults :
          Complete(w, createHeadRefOnCreated(refs, published[worker[w]], fault))

HandleBranchUpdated(w) ==
    /\ worker[w] # Idle
    /\ published[worker[w]].Kind = KindBranchUpdated
    /\ \E fault \in Faults :
          Complete(w, updateHeadRefOnBranchUpdate(refs, published[worker[w]], fault))

HandleReopened(w) ==
    /\ worker[w] # Idle
    /\ published[worker[w]].Kind = KindReopened
    /\ \E fault \in Faults :
          Complete(w, updateHeadRefOnReopen(refs, published[worker[w]], fault))

NextHeadRef ==
    \/ \E n \in PRNumbers, s \in SHAs : CreatePR(n, s)
    \/ \E n \in PRNumbers, s \in SHAs : PushToSource(n, s)
    \/ \E n \in PRNumbers : ClosePR(n)
    \/ \E n \in PRNumbers, s \in SHAs : ReopenPR(n, s)
    \/ \E w \in Workers, i \in 1..MaxEvents : Deliver(w, i)
    \/ \E w \in Workers : HandleCreated(w)
    \/ \E w \in Workers : HandleBranchUpdated(w)
    \/ \E w \in Workers : HandleReopened(w)

Spec == InitHeadRef /\ [][NextHeadRef]_vars

TypeOK ==
    /\ \A r \in RefNames : refs[r] \in SHAs \cup {RefNotFound}
    /\ Len(deliveries) = Len(published)
    /\ \A w \in Workers : worker[w] \in 0..Len(published)

(***************************************************************************)
(* The synchronizer on two repositories with two pull requests each: a     *)
(* pair of events is published, the first for a pull request of the first  *)
(* repository and the second for any other of the four pull requests, and  *)
(* handled by the workers.  In each repository the head ref of pull        *)
(* request 1 exists and the head ref of pull request 2 does not.           *)
(***************************************************************************)
Repos == {TargetRepo, TargetRepo + 1}
PullReqsOfRepo == {1, 2}

AllRefNames ==
    UNION {{<<r, RefTypePullReqHead, n>> : n \in PullReqsOfRepo}
              \cup {<<r, RefTypeBranch, 0>>, <<r, RefTypeTag, 0>>} : r \in Repos}

EventsOf(r, n) ==
    {[CreatedPayload(n, 2) EXCEPT !.TargetRepoID = r],
     [BranchUpdatedPayload(n, 1, 2) EXCEPT !.TargetRepoID = r],
     [ReopenedPayload(n, 2) EXCEPT !.TargetRepoID = r]}

InitIsolation ==
    /\ pullreq = [n \in PullReqsOfRepo |-> [State |-> "open", SourceSHA |-> 2]]
    /\ refs = [name \in AllRefNames |->
                 IF name[2] = RefTypePullReqHead /\ name[3] = 2
                   THEN RefNotFound
                   ELSE 1]
    /\ \E e1 \in UNION {EventsOf(TargetRepo, n) : n \in PullReqsOfRepo},
          e2 \in UNION {EventsOf(r, n) : r \in Repos, n \in PullReqsOfRepo} :
          /\ <<e1.TargetRepoID, e1.Number>> # <<e2.TargetRepoID, e2.Number>>
          /\ published = <<e1, e2>>
    /\ deliveries = [i \in 1..Len(published) |-> 0]
    /\ worker = [w \in Workers |-> Idle]
    /\ lastH = [n \in PullReqsOfRepo |-> NoHandling]
    /\ faulted = [n \in PullReqsOfRepo |-> FALSE]
    /\ VerifyIdle
    /\ HookIdle
    /\ UpdateIdle
    /\ JsonIdle

NextIsolation ==
    \/ \E w \in Workers, i \in 1..MaxEvents : Deliver(w, i)
    \/ \E w \in Workers : HandleCreated(w)
    \/ \E w \in Workers : HandleBranchUpdated(w)
    \/ \E w \in Workers : HandleReopened(w)

SpecIsolation == InitIsolation /\ [][NextIsolation]_vars

(***************************************************************************)
(* Calls of the merge verifier.                                            *)
(***************************************************************************)
\* the synchronizer is not in use: no PR, no event
HeadRefIdle ==
    /\ pullreq = [n \in PRNumbers |-> [State |-> "none", SourceSHA |-> NoValue]]
    /\ refs = [r \in RefNames |-> IF r[2] = RefTypePullReqHead THEN RefNotFound ELSE 1]
    /\ published = <<>>
    /\ deliveries = <<>>
    /\ worker = [w \in Workers |-> Idle]
    /\ lastH = [n \in PRNumbers |-> NoHandling]
    /\ faulted = [n \in PRNumbers |-> FALSE]

MergeVerifyCall ==
    /\ ret = NoRet
    /\ ret' = MergeVerify(v, in)
    /\ UNCHANGED <<v, in, entry, status, in2, ret2, headRefVars, hookVars, updateVars, jsonVars>>

GetCodeOwnerApprovalStatusCall ==
    /\ status = NoRet
    /\ status' = [called |-> TRUE, result |-> getCodeOwnerApprovalStatus(entry)]
    /\ UNCHANGED <<v, in, ret, entry, in2, ret2, headRefVars, hookVars, updateVars, jsonVars>>

\* Approvals: every sanitized approvals rule, every list of reviewers
InitApprovals ==
    /\ HeadRefIdle
    /\ UpdateIdle
    /\ JsonIdle
    /\ HookIdle
    /\ in2 = NoInput
    /\ ret2 = NoRet
    /\ \E a \in [RequireCodeOwners : BOOLEAN,
                 RequireMinimumCount : 0..MaxMinimumCount,
                 RequireLatestCommit : BOOLEAN,
                 RequireNoChangeRequest : BOOLEAN] :
          /\ ApprovalsSanitized(a)
          /\ v = DefPullReq(a, FALSE, <<>>, <<>>, FALSE)
    /\ \E sha \in SHAs, reviewers \in SeqUpTo(ReviewerValues, MaxReviewers) :
          in = MergeVerifyInput(sha, 0, reviewers, NoMethod, <<>>, NoEntries)
    /\ ret = NoRet
    /\ entry = EmptyEntry
    /\ status = NoRet

SpecApprovals == InitApprovals /\ [][MergeVerifyCall]_vars

\* Code owners: every evaluation entry
InitCodeOwners ==
    /\ HeadRefIdle
    /\ UpdateIdle
    /\ JsonIdle
    /\ HookIdle
    /\ in2 = NoInput
    /\ ret2 = NoRet
    /\ v = DefaultPolicy
    /\ in = DefaultInput
    /\ ret = NoRet
    /\ entry \in EvaluationEntries(MaxEvaluations)
    /\ status = NoRet

SpecCodeOwners == InitCodeOwners /\ [][GetCodeOwnerApprovalStatusCall]_vars


\* All rules at once: every sanitized policy and every input with at most
\* MaxItems reviewers, required identifiers, check results, allowed
\* strategies, unresolved comments and ownership patterns
CheckIdentifiers == {"ci"}
CheckResultValues ==
    [Identifier : CheckIdentifiers, Status : {CheckStatusSuccess, CheckStatusFailure}]
MergeMethodValues == {MergeMethods[m] : m \in 1..Len(MergeMethods)}
UserEntries ==
    {[OwnerEvaluations |-> evals, UserGroupOwnerEvaluations |-> <<>>] :
        evals \in SeqUpTo(OwnerEvaluationValues, MaxItems)}
CodeOwnersValues ==
    {Nil} \cup {[EvaluationEntries |-> entries] : entries \in SeqUpTo(UserEntries, MaxItems)}

InitVerify ==
    /\ HeadRefIdle
    /\ UpdateIdle
    /\ JsonIdle
    /\ HookIdle
    /\ in2 = NoInput
    /\ ret2 = NoRet
    /\ \E a \in [RequireCodeOwners : BOOLEAN,
                 RequireMinimumCount : 0..MaxItems,
                 RequireLatestCommit : BOOLEAN,
                 RequireNoChangeRequest : BOOLEAN],
          resolveAll \in BOOLEAN,
          identifiers \in SeqUpTo(CheckIdentifiers, MaxItems),
          strategies \in SeqUpTo(MergeMethodValues, MaxItems) :
          /\ ApprovalsSanitized(a)
          /\ v = DefPullReq(a, resolveAll, identifiers, strategies, FALSE)
    /\ \E unresolved \in 0..MaxItems,
          reviewers \in SeqUpTo(ReviewerValues, MaxItems),
          method \in {NoMethod} \cup MergeMethodValues,
          results \in SeqUpTo(CheckResultValues, MaxItems),
          owners \in CodeOwnersValues :
          in = MergeVerifyInput(1, unresolved, reviewers, method, results, owners)
    /\ ret = NoRet
    /\ entry = EmptyEntry
    /\ status = NoRet

SpecVerify == InitVerify /\ [][MergeVerifyCall]_vars

\* Status checks: every list of required identifiers, every list of check
\* results, several results of one identifier included
RequiredIdentifierValues == {"ci", "lint"}

InitChecks ==
    /\ HeadRefIdle
    /\ UpdateIdle
    /\ JsonIdle
    /\ HookIdle
    /\ in2 = NoInput
    /\ ret2 = NoRet
    /\ \E identifiers \in SeqUpTo(RequiredIdentifierValues, MaxRequired) :
          v = DefPullReq(DefaultPolicy.Approvals, FALSE, identifiers, <<>>, FALSE)
    /\ \E results \in SeqUpTo([Identifier : RequiredIdentifierValues,
                               Status : {CheckStatusSuccess, CheckStatusFailure}],
                              MaxResults) :
          in = MergeVerifyInput(1, 0, <<>>, NoMethod, results, NoEntries)
    /\ ret = NoRet
    /\ entry = EmptyEntry
    /\ status = NoRet

SpecChecks == InitChecks /\ [][MergeVerifyCall]_vars

\* Merge: every list of strategies DefMerge.Sanitize lets pass (recognized
\* methods, none twice, sorted), every requested method, with and without
\* another violation
SanitizedStrategies ==
    {SelectSeq(MergeMethods, LAMBDA m : m \in allowed) :
        allowed \in SUBSET {MergeMethods[m] : m \in 1..Len(MergeMethods)}}

InitMerge ==
    /\ HeadRefIdle
    /\ UpdateIdle
    /\ JsonIdle
    /\ HookIdle
    /\ in2 = NoInput
    /\ ret2 = NoRet
    /\ \E resolveAll \in BOOLEAN, strategies \in SanitizedStrategies,
          deleteBranch \in BOOLEAN :
          v = DefPullReq(DefaultPolicy.Approvals, resolveAll, <<>>, strategies,
                         deleteBranch)
    /\ \E unresolved \in 0..MaxItems,
          method \in {NoMethod} \cup {MergeMethods[m] : m \in 1..Len(MergeMethods)} :
          in = MergeVerifyInput(1, unresolved, <<>>, method, <<>>, NoEntries)
    /\ ret = NoRet
    /\ entry = EmptyEntry
    /\ status = NoRet

SpecMerge == InitMerge /\ [][MergeVerifyCall]_vars

\* the second call on the same rule
MergeVerifyCall2 ==
    /\ in2 # NoInput
    /\ ret2 = NoRet
    /\ ret2' = MergeVerify(v, in2)
    /\ UNCHANGED <<v, in, ret, entry, status, in2, headRefVars, hookVars, updateVars, jsonVars>>

\* Bypass: two inputs that differ at most in Actor, AllowBypass and
\* IsRepoOwner, over every rule, each list empty or of one element
AtMostOne(S) == {<<>>} \cup {<<x>> : x \in S}

ActorValues == {NoActor, 1}

InitBypass ==
    /\ HeadRefIdle
    /\ UpdateIdle
    /\ JsonIdle
    /\ HookIdle
    /\ \E a \in [RequireCodeOwners : BOOLEAN,
                 RequireMinimumCount : {0, 1},
                 RequireLatestCommit : BOOLEAN,
                 RequireNoChangeRequest : BOOLEAN],
          resolveAll \in BOOLEAN,
          identifiers \in AtMostOne(CheckIdentifiers),
          strategies \in AtMostOne(MergeMethodValues) :
          /\ ApprovalsSanitized(a)
          /\ v = DefPullReq(a, resolveAll, identifiers, strategies, FALSE)
    /\ \E unresolved \in {0, 1},
          reviewers \in AtMostOne(ReviewerValues),
          method \in {NoMethod, MergeMethods[Len(MergeMethods)]},
          results \in AtMostOne(CheckResultValues),
          owners \in {Nil, NoEntries} :
          /\ in = MergeVerifyInput(1, unresolved, reviewers, method, results, owners)
          /\ \E actor \in ActorValues, allowBypass \in BOOLEAN, isRepoOwner \in BOOLEAN :
                in2 = [in EXCEPT !.Actor = actor, !.AllowBypass = allowBypass,
                                 !.IsRepoOwner = isRepoOwner]
    /\ ret = NoRet
    /\ ret2 = NoRet
    /\ entry = EmptyEntry
    /\ status = NoRet

SpecBypass == InitBypass /\ [][MergeVerifyCall \/ MergeVerifyCall2]_vars

\* Owners: the two rules the code-owner step reads, over every evaluation
\* of up to MaxPatterns patterns, each owned by at most one user and at
\* most one user group of one member
OwnerReviewValues ==
    [ReviewDecision : PullReqReviewDecisions, ReviewSHA : {1, 2}]

OwnedEntries ==
    {[OwnerEvaluations |-> evals,
      UserGroupOwnerEvaluations |-> [g \in 1..Len(members) |->
                                        [Evaluations |-> <<members[g]>>]]] :
        evals \in AtMostOne(OwnerReviewValues),
        members \in AtMostOne(OwnerReviewValues)}

InitOwners ==
    /\ HeadRefIdle
    /\ UpdateIdle
    /\ JsonIdle
    /\ HookIdle
    /\ in2 = NoInput
    /\ ret2 = NoRet
    /\ \E requireCodeOwners \in BOOLEAN, requireLatestCommit \in BOOLEAN :
          LET a == [RequireCodeOwners |-> requireCodeOwners,
                    RequireMinimumCount |-> 0,
                    RequireLatestCommit |-> requireLatestCommit,
                    RequireNoChangeRequest |-> FALSE]
          IN  /\ ApprovalsSanitized(a)
              /\ v = DefPullReq(a, FALSE, <<>>, <<>>, FALSE)
    /\ \E owners \in {Nil} \cup {[EvaluationEntries |-> entries] :
                                    entries \in SeqUpTo(OwnedEntries, MaxPatterns)} :
          in = MergeVerifyInput(1, 0, <<>>, NoMethod, <<>>, owners)
    /\ ret = NoRet
    /\ entry = EmptyEntry
    /\ status = NoRet

SpecOwners == InitOwners /\ [][MergeVerifyCall]_vars

\* Sanitize: every rule with up to MaxStrategies strategies, sanitized and,
\* when it was accepted, sanitized again
SanitizeCall ==
    /\ ret = NoRet
    /\ \E identifiersErr \in BOOLEAN : ret' = Sanitize(v, identifiersErr)
    /\ UNCHANGED <<v, in, entry, status, in2, ret2, headRefVars, hookVars, updateVars, jsonVars>>

SanitizeAgain ==
    /\ ret # NoRet
    /\ ret.err = ""
    /\ ret2 = NoRet
    /\ ret2' = Sanitize(ret.v, FALSE)
    /\ UNCHANGED <<v, in, ret, entry, status, in2, headRefVars, hookVars, updateVars, jsonVars>>

StrategyValues == {StringOrder[k] : k \in 1..Len(StringOrder)}

InitSanitize ==
    /\ HeadRefIdle
    /\ UpdateIdle
    /\ JsonIdle
    /\ HookIdle
    /\ \E a \in [RequireCodeOwners : BOOLEAN,
                 RequireMinimumCount : -1..MaxMinimumCount,
                 RequireLatestCommit : BOOLEAN,
                 RequireNoChangeRequest : BOOLEAN],
          resolveAll \in BOOLEAN,
          identifiers \in AtMostOne(CheckIdentifiers),
          strategies \in SeqUpTo(StrategyValues, MaxStrategies),
          deleteBranch \in BOOLEAN :
          v = DefPullReq(a, resolveAll, identifiers, strategies, deleteBranch)
    /\ in = DefaultInput
    /\ in2 = NoInput
    /\ ret = NoRet
    /\ ret2 = NoRet
    /\ entry = EmptyEntry
    /\ status = NoRet

SpecSanitize == InitSanitize /\ [][SanitizeCall \/ SanitizeAgain]_vars

\* Documents: every DefStatusChecks of up to MaxRequired identifiers is
\* encoded and decoded, and every document with up to MaxRequired
\* identifiers under either key is decoded
UnmarshalCall ==
    /\ decoded = NoRet
    /\ decoded' = [called |-> TRUE, result |-> UnmarshalJSON(document)]
    /\ UNCHANGED <<checks, document, roundTrip, headRefVars, verifyVars, hookVars,
                   updateVars>>

RoundTripCall ==
    /\ roundTrip = NoRet
    /\ roundTrip' = [called |-> TRUE, encoded |-> MarshalJSON(checks),
                     result |-> UnmarshalJSON(MarshalJSON(checks))]
    /\ UNCHANGED <<checks, document, decoded, headRefVars, verifyVars, hookVars,
                   updateVars>>

IdentifierLists == SeqUpTo(RequiredIdentifierValues, MaxRequired)

KeyValues == {Absent, Null} \cup {Array(items) : items \in IdentifierLists}

InitDocuments ==
    /\ HeadRefIdle
    /\ UpdateIdle
    /\ VerifyIdle
    /\ HookIdle
    /\ \E slice \in {NilSlice} \cup {Slice(items) : items \in IdentifierLists} :
          checks = [RequireIdentifiers |-> slice]
    /\ document \in {Malformed} \cup
                     [valid : {TRUE}, require_identifiers : KeyValues,
                      require_uids : KeyValues]
    /\ decoded = NoRet
    /\ roundTrip = NoRet

SpecDocuments == InitDocuments /\ [][UnmarshalCall \/ RoundTripCall]_vars

\* RequiredChecks: every list of required identifiers, two inputs
RequiredChecksCall ==
    /\ ret = NoRet
    /\ ret' = RequiredChecks(v, in)
    /\ UNCHANGED <<v, in, entry, status, in2, ret2, headRefVars, hookVars, updateVars, jsonVars>>

RequiredChecksCall2 ==
    /\ ret2 = NoRet
    /\ ret2' = RequiredChecks(v, in2)
    /\ UNCHANGED <<v, in, ret, entry, status, in2, headRefVars, hookVars, updateVars, jsonVars>>

RequiredChecksInput ==
    [Actor : ActorValues, IsRepoOwner : BOOLEAN, Repo : {1, 2},
     PullReq : {Nil} \cup [SourceSHA : {1, 2}, UnresolvedCount : {0, 1}]]

InitRequired ==
    /\ HeadRefIdle
    /\ UpdateIdle
    /\ JsonIdle
    /\ HookIdle
    /\ \E identifiers \in SeqUpTo(RequiredIdentifierValues, MaxRequired) :
          v = DefPullReq(DefaultPolicy.Approvals, FALSE, identifiers, <<>>, FALSE)
    /\ in \in RequiredChecksInput
    /\ in2 \in RequiredChecksInput
    /\ ret = NoRet
    /\ ret2 = NoRet
    /\ entry = EmptyEntry
    /\ status = NoRet

SpecRequired == InitRequired /\ [][RequiredChecksCall \/ RequiredChecksCall2]_vars

(***************************************************************************)
(* Calls of the post-receive hook.                                         *)
(***************************************************************************)
\* one call of PostReceive; git.IsAncestor answers as it likes
PostReceiveCall ==
    /\ hookOut = NoRet
    /\ \E answers \in [1..Len(hookIn.RefUpdates) -> IsAncestorOutputs \cup {NoQuery}] :
          /\ \A k \in 1..Len(hookIn.RefUpdates) :
                (answers[k] = NoQuery) <=>
                    ~(hookIn.Access /\ QueriesAncestry(hookIn.RefUpdates[k]))
          /\ hookOut' = PostReceive(hookIn, answers)
    /\ UNCHANGED <<hookIn, headRefVars, verifyVars, updateVars, jsonVars>>

RefValues ==
    {<<"refs", "heads", "main">>, <<"refs", "heads", "feature">>,
     <<"refs", "tags", "v1">>, <<"refs", "pullreq", "1", "head">>}

\* ref updates: the old SHA among olds, the new SHA nil or another commit
ReferenceUpdates(names, olds) == [Ref : names, Old : olds, New : {NilSHA, 2}]

\* Events: every push of up to MaxRefUpdates ref updates
InitHookEvents ==
    /\ HeadRefIdle
    /\ UpdateIdle
    /\ JsonIdle
    /\ VerifyIdle
    /\ \E access \in BOOLEAN,
          refUpdates \in SeqUpTo(ReferenceUpdates(RefValues, {NilSHA, 1}), MaxRefUpdates) :
          hookIn = [NoPush EXCEPT !.Access = access, !.RefUpdates = refUpdates]
    /\ hookOut = NoRet

SpecHookEvents == InitHookEvents /\ [][PostReceiveCall]_vars

\* Messages: every push of up to MaxPushes ref updates into a repository
\* with up to MaxPullReqs pull requests
PullReqValues(n) ==
    [Number : {n}, SourceBranch : {<<"main">>, <<"feature">>},
     State : {"open", "closed"}, Title : {"title"}]

PullReqStores ==
    UNION {{prs \in [1..n -> UNION {PullReqValues(k) : k \in 1..n}] :
               \A k \in 1..n : prs[k].Number = k} :
           n \in 0..MaxPullReqs}

InitHookMessages ==
    /\ HeadRefIdle
    /\ UpdateIdle
    /\ JsonIdle
    /\ VerifyIdle
    /\ \E access \in BOOLEAN,
          refUpdates \in SeqUpTo(ReferenceUpdates({r \in RefValues : r[2] # "pullreq"}, {1}),
                                MaxPushes),
          defaultBranch \in {<<"main">>, <<"feature">>},
          pullReqs \in PullReqStores,
          listErr \in BOOLEAN :
          hookIn = [Access |-> access, RefUpdates |-> refUpdates,
                    DefaultBranch |-> defaultBranch, PullReqs |-> pullReqs,
                    ListErr |-> listErr, PublishErrs |-> {}]
    /\ hookOut = NoRet

SpecHookMessages == InitHookMessages /\ [][PostReceiveCall]_vars

\* Failures: every push of up to MaxPushes ref updates, with every choice
\* of the publications and of the lookup that fail
InitHookErrors ==
    /\ HeadRefIdle
    /\ UpdateIdle
    /\ JsonIdle
    /\ VerifyIdle
    /\ \E access \in BOOLEAN,
          refUpdates \in SeqUpTo(ReferenceUpdates({r \in RefValues : r[2] # "pullreq"},
                                                 {NilSHA, 1}),
                                MaxPushes),
          pullReqs \in {prs \in PullReqStores : Len(prs) <= 1},
          listErr \in BOOLEAN :
          \E publishErrs \in SUBSET (1..Len(refUpdates)) :
              hookIn = [Access |-> access, RefUpdates |-> refUpdates,
                        DefaultBranch |-> <<"main">>, PullReqs |-> pullReqs,
                        ListErr |-> listErr, PublishErrs |-> publishErrs]
    /\ hookOut = NoRet

SpecHookErrors == InitHookErrors /\ [][PostReceiveCall]_vars

(***************************************************************************)
(* Calls of Controller.Update, one per caller, on the same pull request.   *)
(* A call takes up to three steps, one per store it goes to: the read      *)
(* (FindByNumber), the write (UpdateOptLock), the activity                 *)
(* (CreateWithPayload).                                                    *)
(***************************************************************************)
\* the titles and descriptions the callers send
TitleValues == {<<>>, <<" ">>, <<"a">>, <<"a", " ">>, <<"b">>}
DescriptionValues == {<<" ">>, <<"d">>}
UpdateInput == [Title : TitleValues, Description : DescriptionValues]

\* what may fail before the comparison: getRepoCheckAccess, FindByNumber,
\* and for a pull request from another repository repoStore.Find or
\* apiauth.CheckRepo
UpdateFailures == {"none", "access", "find", "source"}

Returned(pr, err) == [called |-> TRUE, pr |-> pr, err |-> err]

\* Update up to the comparison: Check, the access check, FindByNumber and
\* the checks of the source repository
UpdateRead(c) ==
    /\ update[c].pc = "idle"
    /\ \E raw \in UpdateInput, failure \in UpdateFailures :
          LET input == Check(raw)
              call == [NoCall EXCEPT !.raw = raw, !.input = input]
          IN  /\ failure = "source" =>
                    pullreqStore.SourceRepoID # pullreqStore.TargetRepoID
              /\ update' = [update EXCEPT ![c] =
                    IF input.err
                      THEN [call EXCEPT !.pc = "done", !.ret = Returned(Nil, "check")]
                    ELSE IF failure = "access"
                      THEN [call EXCEPT !.pc = "done", !.ret = Returned(Nil, "access")]
                    ELSE IF failure = "find"
                      THEN [call EXCEPT !.pc = "done", !.ret = Returned(Nil, "find")]
                    ELSE IF failure = "source"
                      THEN [call EXCEPT !.pc = "done", !.read = pullreqStore,
                                        !.ret = Returned(Nil, "source")]
                    ELSE [call EXCEPT !.pc = "found", !.read = pullreqStore]]
    /\ UNCHANGED <<pullreqStore, activityStore, headRefVars, verifyVars, hookVars, jsonVars>>

\* Update from the comparison to the return after UpdateOptLock; a call
\* that has no activity to write publishes the change and returns
UpdateWrite(c) ==
    /\ update[c].pc = "found"
    /\ \E now \in 0..MaxTime :
          LET res == compareAndUpdate(pullreqStore, update[c].read,
                                      update[c].input, now)
          IN  /\ pullreqStore' = res.store
              /\ update' = [update EXCEPT ![c] =
                    IF res.needToWriteActivity
                      THEN [@ EXCEPT !.pc = "written", !.pr = res.pr,
                                     !.written = res.written]
                      ELSE [@ EXCEPT !.pc = "done", !.pr = res.pr,
                                     !.written = res.written,
                                     !.ret = Returned(res.pr,
                                                IF res.err THEN "update" ELSE "")]]
    /\ UNCHANGED <<activityStore, headRefVars, verifyVars, hookVars, jsonVars>>

\* Update after a change of the title: the activity is written, which may
\* fail without failing the call, the change is published, the call returns
UpdateActivity(c) ==
    /\ update[c].pc = "written"
    /\ \E errAct \in BOOLEAN :
          activityStore' =
              IF errAct THEN activityStore
              ELSE Append(activityStore,
                      PullRequestActivityPayloadTitleChange(update[c].read.Title,
                                                            update[c].pr))
    /\ update' = [update EXCEPT ![c] =
          [@ EXCEPT !.pc = "done", !.ret = Returned(update[c].pr, "")]]
    /\ UNCHANGED <<pullreqStore, headRefVars, verifyVars, hookVars, jsonVars>>

InitUpdate ==
    /\ HeadRefIdle
    /\ VerifyIdle
    /\ HookIdle
    /\ JsonIdle
    /\ \E sourceRepoID \in {1, 2} :
          pullreqStore = [NewPullReq EXCEPT !.SourceRepoID = sourceRepoID]
    /\ activityStore = <<>>
    /\ update = [c \in Callers |-> NoCall]

NextUpdate ==
    \/ \E c \in Callers : UpdateRead(c)
    \/ \E c \in Callers : UpdateWrite(c)
    \/ \E c \in Callers : UpdateActivity(c)

SpecUpdate == InitUpdate /\ [][NextUpdate]_vars

(***************************************************************************)
(* Properties of the head-ref synchronizer.                                *)
(***************************************************************************)
Payload(h) == published[h.ev]

\* C1: a BranchUpdated handling (OldSHA = A, NewSHA = B) that finds the head
\* ref holding a value other than A returns an error and leaves the ref as
\* it found it.
C1_BranchUpdateMismatchFails ==
    \A n \in PRNumbers :
        LET h == lastH[n]
        IN  (h.kind = KindBranchUpdated /\ h.before # Payload(h).OldSHA)
                => (h.err /\ h.after = h.before)

\* the UpdateRef of a BranchUpdated handler was rejected by a head ref that
\* exists and holds another commit than the event's OldSHA
C1_Witness ==
    \E n \in PRNumbers :
        LET h == lastH[n]
        IN  /\ h.kind = KindBranchUpdated
            /\ h.issued
            /\ h.before \in SHAs
            /\ h.before # Payload(h).OldSHA
            /\ h.err
            /\ h.after = h.before

\* every event published for PR n was handed to a worker exactly once and
\* no handler is running any more
ConsumedOnce(n) ==
    /\ pullreq[n].State # "none"
    /\ \A i \in 1..Len(published) : deliveries[i] = 1
    /\ \A w \in Workers : worker[w] = Idle

\* C2: once every lifecycle event of a PR was consumed, in any order and
\* without retry of the updates that failed, the head ref equals the PR's
\* source SHA.  Stated for the runs in which every handler got as far as its
\* UpdateRef and the PR was never reopened.
C2_ConsumedImpliesInSync ==
    \A n \in PRNumbers :
        (/\ ConsumedOnce(n)
         /\ ~faulted[n]
         /\ \A i \in 1..Len(published) : published[i].Kind # KindReopened)
            => refs[HeadRef(n)] = pullreq[n].SourceSHA

\* C3: the update issued by createHeadRefOnCreated expects the head ref not
\* to exist: an absent ref becomes SourceSHA and the handler returns nil, an
\* existing ref makes the handler return an error and keeps its value.
C3_CreateExpectsNoRef ==
    \A n \in PRNumbers :
        LET h == lastH[n]
        IN  (h.kind = KindCreated /\ h.issued)
                => IF h.before = RefNotFound
                     THEN ~h.err /\ h.after = Payload(h).SourceSHA
                     ELSE h.err /\ h.after = h.before

\* a Created handler found the head ref at another commit than its SourceSHA
C3_Witness ==
    \E n \in PRNumbers :
        LET h == lastH[n]
        IN  /\ h.kind = KindCreated
            /\ h.issued
            /\ h.before \in SHAs
            /\ h.before # Payload(h).SourceSHA
            /\ h.err

\* C4: whatever the head ref held before, the update issued by
\* updateHeadRefOnReopen is not rejected and the ref equals SourceSHA after.
C4_ReopenPermissive ==
    \A n \in PRNumbers :
        LET h == lastH[n]
        IN  (h.kind = KindReopened /\ h.issued)
                => (~h.err /\ h.after = Payload(h).SourceSHA)

Qualifying(p, i) ==
    {k \in 1..Len(i.Reviewers) :
        /\ i.Reviewers[k].ReviewDecision = PullReqReviewDecisionApproved
        /\ \/ ~p.Approvals.RequireLatestCommit
           \/ i.Reviewers[k].SHA = i.PullReq.SourceSHA}

\* the violations a returned call reports, as one sequence
Reported(r) ==
    IF r.panic \/ Len(r.violations) = 0 THEN <<>> ELSE r.violations[1].Violations

HasCode(r, code) == \E k \in 1..Len(Reported(r)) : Reported(r)[k].Code = code

MinimumCountViolation(r) ==
    \/ HasCode(r, codePullReqApprovalReqMinCount)
    \/ HasCode(r, codePullReqApprovalReqMinCountLatest)

\* RequireMinimumCount is the only rule of the policy
OnlyMinimumCount(p) ==
    /\ p.Approvals.RequireMinimumCount >= 1
    /\ ~p.Approvals.RequireCodeOwners
    /\ ~p.Approvals.RequireLatestCommit
    /\ ~p.Approvals.RequireNoChangeRequest
    /\ ~p.Comments.RequireResolveAll
    /\ p.StatusChecks.RequireIdentifiers = <<>>
    /\ p.Merge.StrategiesAllowed = <<>>
    /\ ~p.Merge.DeleteBranch

\* C7: under a policy whose only rule is RequireMinimumCount = n >= 1,
\* MergeVerify records the minimum-count violation when exactly n-1 reviewers
\* hold a qualifying approval and records none when n or more do.
C7_MinimumCount ==
    (ret.called /\ OnlyMinimumCount(v)) =>
        LET n == v.Approvals.RequireMinimumCount
            have == Cardinality(Qualifying(v, in))
        IN  /\ ~ret.panic
            /\ (have = n - 1) => HasCode(ret, codePullReqApprovalReqMinCount)
            /\ (have >= n) => ~MinimumCountViolation(ret)

C7_Witness ==
    /\ ret.called
    /\ OnlyMinimumCount(v)
    /\ v.Approvals.RequireMinimumCount = 2
    /\ Len(in.Reviewers) = 2
    /\ Cardinality(Qualifying(v, in)) = 1
    /\ HasCode(ret, codePullReqApprovalReqMinCount)

\* minimum 1, the other rules off but for RequireLatestCommit, and a single
\* reviewer who approved another SHA than the PR's SourceSHA
OldApprovalScenario ==
    /\ v.Approvals.RequireMinimumCount = 1
    /\ ~v.Approvals.RequireCodeOwners
    /\ ~v.Approvals.RequireNoChangeRequest
    /\ Len(in.Reviewers) = 1
    /\ in.Reviewers[1].ReviewDecision = PullReqReviewDecisionApproved
    /\ in.Reviewers[1].SHA # in.PullReq.SourceSHA

\* C8: a reviewer counts toward the approval minimum iff the decision is
\* approved and RequireLatestCommit is off or the reviewer's SHA is the PR's
\* SourceSHA; with minimum 1 and one approval of an old SHA the call reports
\* no violation when RequireLatestCommit is off and exactly one, with the
\* minimum-count-latest code, when it is on.
C8_QualifyingApprovals ==
    ret.called =>
        /\ ~ret.panic
        /\ \A k \in 1..Len(in.Reviewers) :
              SeqContains(ret.approvedBy, k) <=> k \in Qualifying(v, in)
        /\ Len(ret.approvedBy) = Cardinality(Qualifying(v, in))
        /\ MinimumCountViolation(ret) <=>
              Cardinality(Qualifying(v, in)) < v.Approvals.RequireMinimumCount
        /\ (OldApprovalScenario /\ ~v.Approvals.RequireLatestCommit) =>
              /\ ret.violations = <<>>
              /\ Len(ret.approvedBy) = 1
        /\ (OldApprovalScenario /\ v.Approvals.RequireLatestCommit) =>
              /\ Len(ret.violations) = 1
              /\ Len(Reported(ret)) = 1
              /\ Reported(ret)[1].Code = codePullReqApprovalReqMinCountLatest
              /\ Len(ret.approvedBy) = 0

C8_Witness ==
    /\ ret.called
    /\ OldApprovalScenario
    /\ v.Approvals.RequireLatestCommit
    /\ Len(Reported(ret)) = 1
    /\ HasCode(ret, codePullReqApprovalReqMinCountLatest)
    /\ ret.approvedBy = <<>>

\* the evaluations of an entry: of its users, then of the members of its
\* user groups
RECURSIVE GroupLeaves(_, _)
GroupLeaves(groups, g) ==
    IF g > Len(groups) THEN <<>>
    ELSE groups[g].Evaluations \o GroupLeaves(groups, g + 1)

Leaves(e) == e.OwnerEvaluations \o GroupLeaves(e.UserGroupOwnerEvaluations, 1)

HasLeaf(e, decision) ==
    \E k \in 1..Len(Leaves(e)) : Leaves(e)[k].ReviewDecision = decision

\* C9: if a user evaluation or a member evaluation of any user group of an
\* entry has decision change-requested, getCodeOwnerApprovalStatus returns
\* change-requested, whatever approvals the entry holds and in whatever order.
C9_CodeOwnerVeto ==
    (status.called /\ HasLeaf(entry, PullReqReviewDecisionChangeReq)) =>
        status.result.decision = PullReqReviewDecisionChangeReq

C9_Witness ==
    /\ status.called
    /\ Len(entry.OwnerEvaluations) = 1
    /\ entry.OwnerEvaluations[1].ReviewDecision = PullReqReviewDecisionApproved
    /\ Len(entry.UserGroupOwnerEvaluations) = 2
    /\ Len(entry.UserGroupOwnerEvaluations[1].Evaluations) = 1
    /\ entry.UserGroupOwnerEvaluations[1].Evaluations[1].ReviewDecision
          = PullReqReviewDecisionApproved
    /\ Len(entry.UserGroupOwnerEvaluations[2].Evaluations) = 1
    /\ entry.UserGroupOwnerEvaluations[2].Evaluations[1].ReviewDecision
          = PullReqReviewDecisionChangeReq
    /\ status.result.decision = PullReqReviewDecisionChangeReq

\* the violation conditions of an input, each with the code of its violation
ChangeRequesting(p, i) ==
    {k \in 1..Len(i.Reviewers) :
        /\ p.Approvals.RequireNoChangeRequest
        /\ i.Reviewers[k].ReviewDecision = PullReqReviewDecisionChangeReq}

UnapprovedPatterns(p, i) ==
    IF ~p.Approvals.RequireCodeOwners \/ i.CodeOwners = Nil THEN {}
    ELSE {k \in 1..Len(i.CodeOwners.EvaluationEntries) :
            LET e == i.CodeOwners.EvaluationEntries[k]
            IN  \/ HasLeaf(e, PullReqReviewDecisionChangeReq)
                \/ ~HasLeaf(e, PullReqReviewDecisionApproved)
                \/ /\ p.Approvals.RequireLatestCommit
                   /\ \A a \in 1..Len(Leaves(e)) :
                         Leaves(e)[a].ReviewDecision = PullReqReviewDecisionApproved
                            => Leaves(e)[a].ReviewSHA # i.PullReq.SourceSHA}

TooFewApprovals(p, i) ==
    Cardinality(Qualifying(p, i)) < p.Approvals.RequireMinimumCount

UnresolvedComments(p, i) ==
    p.Comments.RequireResolveAll /\ i.PullReq.UnresolvedCount > 0

CheckNotSuccessful(p, i) ==
    \E r \in 1..Len(p.StatusChecks.RequireIdentifiers) :
        ~\E k \in 1..Len(i.CheckResults) :
            /\ i.CheckResults[k].Identifier = p.StatusChecks.RequireIdentifiers[r]
            /\ i.CheckResults[k].Status = CheckStatusSuccess

StrategyDisallowed(p, i) ==
    /\ i.Method # NoMethod
    /\ Len(p.Merge.StrategiesAllowed) > 0
    /\ ~SeqContains(p.Merge.StrategiesAllowed, i.Method)

Count(b) == IF b THEN 1 ELSE 0

ConditionsHolding(p, i) ==
    Count(TooFewApprovals(p, i)) + Cardinality(ChangeRequesting(p, i))
        + Cardinality(UnapprovedPatterns(p, i)) + Count(UnresolvedComments(p, i))
        + Count(CheckNotSuccessful(p, i)) + Count(StrategyDisallowed(p, i))

\* C10: whenever two or more violation conditions hold at once, the result
\* MergeVerify reports to its caller holds at least two violations, one for
\* each condition that holds.
C10_NoShortCircuit ==
    (ret.called /\ ConditionsHolding(v, in) >= 2) =>
        /\ ~ret.panic
        /\ Len(Reported(ret)) >= 2
        /\ Len(Reported(ret)) >= ConditionsHolding(v, in)
        /\ TooFewApprovals(v, in) => MinimumCountViolation(ret)
        /\ UnresolvedComments(v, in) => HasCode(ret, codePullReqCommentsReqResolveAll)
        /\ CheckNotSuccessful(v, in) => HasCode(ret, codePullReqStatusChecksReqIdentifiers)
        /\ StrategyDisallowed(v, in) => HasCode(ret, codePullReqMergeStrategiesAllowed)

\* some check result carries the identifier with status success
Satisfied(i, identifier) ==
    \E k \in 1..Len(i.CheckResults) :
        /\ i.CheckResults[k].Identifier = identifier
        /\ i.CheckResults[k].Status = CheckStatusSuccess

\* the status-check violations of a returned call
StatusCheckViolations(r) ==
    SelectSeq(Reported(r), LAMBDA x : x.Code = codePullReqStatusChecksReqIdentifiers)

\* the identifier is listed by a status-check violation
Listed(r, identifier) ==
    \E k \in 1..Len(StatusCheckViolations(r)) :
        SeqContains(StatusCheckViolations(r)[k].Args, identifier)

\* C11: a required identifier is satisfied whenever any check result has that
\* identifier and status success, however many other results carry the same
\* identifier, whatever their status and position; it is unsatisfied only
\* when no such result exists.
C11_AnySuccessSatisfies ==
    ret.called =>
        \A r \in 1..Len(v.StatusChecks.RequireIdentifiers) :
            LET identifier == v.StatusChecks.RequireIdentifiers[r]
            IN  Listed(ret, identifier) <=> ~Satisfied(in, identifier)

\* the required identifiers no successful result satisfies, in policy order
Unsatisfied(p, i) ==
    SelectSeq(p.StatusChecks.RequireIdentifiers, LAMBDA x : ~Satisfied(i, x))

\* C12: MergeVerify records exactly one status-check violation, listing all
\* unsatisfied identifiers in policy order, when some required identifier is
\* unsatisfied, and none when all are satisfied or none is required.
C12_OneStatusCheckViolation ==
    ret.called =>
        IF Unsatisfied(v, in) = <<>>
          THEN StatusCheckViolations(ret) = <<>>
          ELSE /\ Len(StatusCheckViolations(ret)) = 1
               /\ StatusCheckViolations(ret)[1].Args = Unsatisfied(v, in)

\* C13: when no method is requested, no strategy violation is recorded and
\* AllowedMethods is StrategiesAllowed if that is non-empty and all merge
\* methods otherwise; when a method is requested, a strategy violation is
\* recorded iff StrategiesAllowed is non-empty and lacks the method.
C13_MergeStrategies ==
    ret.called =>
        /\ ~ret.panic
        /\ (in.Method = NoMethod) =>
              /\ ~HasCode(ret, codePullReqMergeStrategiesAllowed)
              /\ ret.out.AllowedMethods =
                    IF Len(v.Merge.StrategiesAllowed) > 0
                      THEN v.Merge.StrategiesAllowed
                      ELSE MergeMethods
        /\ (in.Method # NoMethod) =>
              (HasCode(ret, codePullReqMergeStrategiesAllowed) <=>
                  /\ Len(v.Merge.StrategiesAllowed) > 0
                  /\ ~SeqContains(v.Merge.StrategiesAllowed, in.Method))

C13_Witness ==
    /\ ret.called
    /\ in.Method = "squash"
    /\ v.Merge.StrategiesAllowed = <<"merge", "rebase">>
    /\ HasCode(ret, codePullReqMergeStrategiesAllowed)

\* C14: the DeleteSourceBranch field of MergeVerify's output is the policy's
\* Merge.DeleteBranch, whether or not a violation was recorded.
C14_DeleteSourceBranch ==
    (ret.called /\ ~ret.panic) =>
        ret.out.DeleteSourceBranch = v.Merge.DeleteBranch

C14_Witness ==
    /\ ret.called
    /\ ~ret.panic
    /\ v.Merge.DeleteBranch
    /\ Len(Reported(ret)) > 0
    /\ ret.out.DeleteSourceBranch

\* C15: MergeVerify completes with a nil error for every input of a sanitized
\* policy, an empty reviewer list, an empty check-result list and a nil
\* code-owner evaluation under RequireCodeOwners included; it never aborts.
C15_NeverFails ==
    ret.called => (~ret.panic /\ ~ret.err)

\* C16: two calls of MergeVerify whose inputs are equal except for Actor,
\* AllowBypass and IsRepoOwner return the same output and the same violations.
C16_BypassInputsUnused ==
    (ret.called /\ ret2.called) =>
        /\ ret.panic = ret2.panic
        /\ ~ret.panic =>
              /\ ret2.out = ret.out
              /\ ret2.violations = ret.violations
              /\ ret2.err = ret.err

C16_Witness ==
    /\ ret.called
    /\ ret2.called
    /\ in2.Actor # NoActor
    /\ in2.AllowBypass
    /\ in2.IsRepoOwner
    /\ ~in.AllowBypass
    /\ ~ret.panic
    /\ Len(Reported(ret)) >= 2
    /\ ret2.violations = ret.violations

(***************************************************************************)
(* Properties of the post-receive hook.                                    *)
(***************************************************************************)
IsBranchRef(ref) == Len(ref) >= 3 /\ ref[1] = "refs" /\ ref[2] = "heads"
IsTagRef(ref) == Len(ref) >= 3 /\ ref[1] = "refs" /\ ref[2] = "tags"

\* the positions of the ref updates of branches and tags, in input order
ReportedPositions(h) ==
    SelectSeq([k \in 1..Len(h.RefUpdates) |-> k],
              LAMBDA k : IsBranchRef(h.RefUpdates[k].Ref) \/ IsTagRef(h.RefUpdates[k].Ref))

IsUpdate(u) == u.Old # NilSHA /\ u.New # NilSHA

\* C17: a branch update event has Forced = TRUE if the ancestry query failed
\* or denied that the old SHA is an ancestor of the new one, and FALSE only
\* when it succeeded and affirmed it; every tag update event has Forced =
\* TRUE, without any ancestry query.
C17_Forced ==
    (hookOut.called /\ ~hookOut.err) =>
        /\ Len(hookOut.events) = Len(ReportedPositions(hookIn))
        /\ \A j \in 1..Len(hookOut.events) :
              LET k == ReportedPositions(hookIn)[j]
                  u == hookIn.RefUpdates[k]
                  e == hookOut.events[j]
                  answer == hookOut.answers[k]
              IN  /\ (IsBranchRef(u.Ref) /\ IsUpdate(u)) =>
                        /\ e.Event = "BranchUpdated"
                        /\ answer # NoQuery
                        /\ e.Forced <=> (answer.err \/ ~answer.Ancestor)
                  /\ (IsTagRef(u.Ref) /\ IsUpdate(u)) =>
                        /\ e.Event = "TagUpdated"
                        /\ answer = NoQuery
                        /\ e.Forced

C17_Witness ==
    /\ hookOut.called
    /\ Len(hookOut.events) = 2
    /\ hookOut.events[1].Event = "BranchUpdated"
    /\ hookOut.answers[1] # NoQuery
    /\ hookOut.answers[1].err
    /\ hookOut.events[1].Forced
    /\ hookOut.events[2].Event = "TagUpdated"
    /\ hookOut.events[2].Forced

\* the event the claim expects for a ref update of a branch or tag
ExpectedEvent(u) ==
    LET kind == IF u.Old = NilSHA THEN "Created"
                ELSE IF u.New = NilSHA THEN "Deleted"
                ELSE "Updated"
    IN  IF IsBranchRef(u.Ref)
          THEN (IF kind = "Created" THEN "BranchCreated"
                ELSE IF kind = "Deleted" THEN "BranchDeleted" ELSE "BranchUpdated")
          ELSE (IF kind = "Created" THEN "TagCreated"
                ELSE IF kind = "Deleted" THEN "TagDeleted" ELSE "TagUpdated")

\* C18: reportReferenceEvents reports, in input order, exactly one event per
\* ref update under refs/heads/ or refs/tags/ and none for any other ref;
\* the kind is created when the old SHA is nil, else deleted when the new
\* SHA is nil, else updated.
C18_OneEventPerRef ==
    (hookOut.called /\ ~hookOut.err) =>
        /\ Len(hookOut.events) = Len(ReportedPositions(hookIn))
        /\ \A j \in 1..Len(hookOut.events) :
              LET u == hookIn.RefUpdates[ReportedPositions(hookIn)[j]]
                  e == hookOut.events[j]
              IN  /\ e.Ref = u.Ref
                  /\ e.Event = ExpectedEvent(u)
                  /\ (IF IsUpdate(u) THEN e.OldSHA = u.Old /\ e.NewSHA = u.New
                      ELSE IF u.Old = NilSHA THEN e.SHA = u.New
                      ELSE e.SHA = u.Old)

C18_Witness ==
    /\ hookOut.called
    /\ Len(hookIn.RefUpdates) = 3
    /\ ~IsBranchRef(hookIn.RefUpdates[2].Ref)
    /\ ~IsTagRef(hookIn.RefUpdates[2].Ref)
    /\ Len(hookOut.events) = 2
    /\ hookOut.events[1].Event = "BranchCreated"
    /\ hookOut.events[2].Event = "TagDeleted"

\* the push qualifies for a PR suggestion
Qualifies(h) ==
    /\ Len(h.RefUpdates) = 1
    /\ IsBranchRef(h.RefUpdates[1].Ref)
    /\ h.RefUpdates[1].New # NilSHA
    /\ Tail(Tail(h.RefUpdates[1].Ref)) # h.DefaultBranch

\* C19: the response holds PR-suggestion messages only if the push is a
\* single ref update of a branch other than the default branch whose new SHA
\* is not nil; otherwise the message list is empty, whatever PRs are open.
C19_SuggestionsOnlyForBranchPush ==
    hookOut.called =>
        (hookOut.out.Messages # <<>> => Qualifies(hookIn))

C19_Witness ==
    /\ hookOut.called
    /\ ~hookOut.err
    /\ Len(hookIn.RefUpdates) = 1
    /\ hookIn.RefUpdates[1] = [Ref |-> <<"refs", "heads", "feature">>,
                               Old |-> 1, New |-> 2]
    /\ hookIn.DefaultBranch = <<"feature">>
    /\ \E k \in 1..Len(hookIn.PullReqs) :
          /\ hookIn.PullReqs[k].SourceBranch = <<"feature">>
          /\ hookIn.PullReqs[k].State = "open"
    /\ ~hookIn.ListErr
    /\ hookOut.out.Messages = <<>>

\* the open pull requests that have the pushed branch as source, oldest first
OpenFrom(h) ==
    SelectSeq(h.PullReqs,
              LAMBDA pr : /\ pr.SourceBranch = Tail(Tail(h.RefUpdates[1].Ref))
                          /\ pr.State = "open")

\* the messages are those for the pull requests prs: a header, then two
\* lines per pull request; or, for none, the two lines of the suggestion
MessagesFor(h, prs, messages) ==
    LET branch == Tail(Tail(h.RefUpdates[1].Ref))
    IN  IF Len(prs) >= 1
          THEN /\ Len(messages) = 2 * Len(prs) + 1
               /\ messages[1].Format = "Branch %q has open PRs:"
               /\ messages[1].Branch = branch
               /\ \A k \in 1..Len(prs) :
                     /\ messages[2 * k].Format = "  (#%d) %s"
                     /\ messages[2 * k].Number = prs[k].Number
                     /\ messages[2 * k].Title = prs[k].Title
                     /\ messages[2 * k + 1].Format = "    GenerateUIPRURL"
                     /\ messages[2 * k + 1].Number = prs[k].Number
          ELSE /\ Len(messages) = 2
               /\ messages[1].Format = "Create a new PR for branch %q"
               /\ messages[1].Branch = branch
               /\ messages[2].Format = "  GenerateUICompareURL"
               /\ messages[2].Base = h.DefaultBranch
               /\ messages[2].Branch = branch

C21_BestEffort ==
    (hookOut.called /\ hookIn.Access) =>
        /\ ~hookOut.err
        /\ hookIn.ListErr => hookOut.out.Messages = <<>>

\* a push on which the ancestry query, the publication and the lookup fail
C21_Witness ==
    /\ hookOut.called
    /\ hookIn.Access
    /\ Len(hookIn.RefUpdates) = 1
    /\ AncestryFailed(hookOut.answers)
    /\ hookOut.lost = {1}
    /\ hookIn.ListErr
    /\ Qualifies(hookIn)
    /\ ~hookOut.err

(***************************************************************************)
(* Properties of Controller.Update.                                        *)
(***************************************************************************)
\* the call of c goes through its write at this step
Writes(c) == update[c].pc = "found" /\ update'[c].pc # "found"

\* the call of c gets as far as UpdateOptLock
ReachesUpdateOptLock(c) ==
    ~(/\ update[c].read.Title = update[c].input.Title
      /\ update[c].read.Description = update[c].input.Description)

\* no two accepted writes were made on the same version of the record
NoLostWrite ==
    \A c1, c2 \in Callers :
        (c1 # c2 /\ update[c1].written /\ update[c2].written) =>
            update[c1].read.Version # update[c2].read.Version

\* C22: a call of Update whose record was written by another call between
\* its FindByNumber and its UpdateOptLock returns an error and leaves the
\* store as the other writer left it; of two concurrent calls no two have
\* their writes accepted on the same version.
C22_ConflictSurfaced ==
    [][/\ \A c \in Callers :
            (/\ Writes(c)
             /\ ReachesUpdateOptLock(c)
             /\ pullreqStore.Version # update[c].read.Version) =>
                /\ update'[c].pc = "done"
                /\ update'[c].ret.err = "update"
                /\ pullreqStore' = pullreqStore
                /\ \E o \in Callers \ {c} :
                      /\ update[o].written
                      /\ pullreqStore'.Title = update[o].input.Title
                      /\ pullreqStore'.Description = update[o].input.Description
       /\ NoLostWrite']_vars

\* two calls read the same version, one write is accepted, the other call
\* returned the conflict
C22_Witness ==
    \E c, o \in Callers :
        /\ c # o
        /\ update[c].pc = "done"
        /\ update[c].ret.err = "update"
        /\ update[o].written
        /\ update[o].read.Version = update[c].read.Version
        /\ pullreqStore.Title = update[o].input.Title
        /\ pullreqStore.Title # update[c].input.Title

\* an update succeeded at this step
Updated == pullreqStore' # pullreqStore

\* C23 as stated: every successful update that changes the title or the
\* description increments the activity sequence counter by one, and the
\* counter never decreases.
C23_IncrementOnTitleOrDescription ==
    [][/\ (/\ Updated
           /\ \/ pullreqStore'.Title # pullreqStore.Title
              \/ pullreqStore'.Description # pullreqStore.Description) =>
               pullreqStore'.ActivitySeq = pullreqStore.ActivitySeq + 1
       /\ pullreqStore'.ActivitySeq >= pullreqStore.ActivitySeq]_vars

\* C23: every successful update that changes the title increments the
\* activity sequence counter by one; an update that changes the description
\* alone, and every other step, leaves the counter as it is.
C23_IncrementOnTitleChange ==
    [][IF Updated /\ pullreqStore'.Title # pullreqStore.Title
         THEN pullreqStore'.ActivitySeq = pullreqStore.ActivitySeq + 1
         ELSE pullreqStore'.ActivitySeq = pullreqStore.ActivitySeq]_vars

\* one accepted update changed the title, another the description alone
C23_Witness ==
    \E c, o \in Callers :
        /\ update[c].written
        /\ update[c].input.Title # update[c].read.Title
        /\ update[c].pr.ActivitySeq = update[c].read.ActivitySeq + 1
        /\ update[o].written
        /\ update[o].input.Title = update[o].read.Title
        /\ update[o].input.Description # update[o].read.Description
        /\ update[o].pr.ActivitySeq = update[o].read.ActivitySeq

\* the call of c starts at this step
Starts(c) == update[c].pc = "idle" /\ update'[c].pc # "idle"

\* C30: a call whose trimmed title is empty returns an error without
\* reading the pull request; a call whose trimmed title and description are
\* the ones of the record it read returns that record without an update;
\* both leave the stored record, with its version, edited timestamp and
\* activity sequence counter, and the activities as they were.
C30_NothingToChange ==
    [][\A c \in Callers :
          /\ (Starts(c) /\ TrimSpace(update'[c].raw.Title) = <<>>) =>
                /\ update'[c].pc = "done"
                /\ update'[c].ret = Returned(Nil, "check")
                /\ update'[c].read = Nil
                /\ pullreqStore' = pullreqStore
                /\ activityStore' = activityStore
          /\ (/\ Writes(c)
              /\ TrimSpace(update[c].raw.Title) = update[c].read.Title
              /\ TrimSpace(update[c].raw.Description) = update[c].read.Description) =>
                /\ update'[c].pc = "done"
                /\ update'[c].ret = Returned(update[c].read, "")
                /\ ~update'[c].written
                /\ pullreqStore' = pullreqStore
                /\ activityStore' = activityStore]_vars

\* one call was rejected for its blank title, another had nothing to change
\* once its input was trimmed
C30_Witness ==
    \E c, o \in Callers :
        /\ update[c].pc = "done"
        /\ update[c].raw.Title = <<" ">>
        /\ update[c].ret.err = "check"
        /\ update[o].pc = "done"
        /\ update[o].raw.Title = <<"a", " ">>
        /\ update[o].ret = Returned(update[o].read, "")
        /\ ~update[o].written
        /\ pullreqStore = update[o].read

(***************************************************************************)
(* Properties of RequiredChecks, of the steps of MergeVerify and of the    *)
(* policy documents.                                                       *)
(***************************************************************************)
\* the identifiers of the rule, as a set
RequireIdentifierSet ==
    {v.StatusChecks.RequireIdentifiers[k] :
        k \in 1..Len(v.StatusChecks.RequireIdentifiers)}

\* C24: RequiredChecks returns the set of the identifiers in the rule's
\* StatusChecks.RequireIdentifiers, nothing added or dropped, with a nil
\* error, and the same for any two inputs.
C24_RequiredChecks ==
    /\ ret.called =>
          /\ ret.out.RequiredIdentifiers = RequireIdentifierSet
          /\ ~ret.err
    /\ (ret.called /\ ret2.called) => ret2 = ret

\* a list with a duplicate, two different inputs
C24_Witness ==
    /\ ret.called
    /\ ret2.called
    /\ in.IsRepoOwner # in2.IsRepoOwner
    /\ in.PullReq # in2.PullReq
    /\ Len(v.StatusChecks.RequireIdentifiers) = 2
    /\ Cardinality(ret.out.RequiredIdentifiers) = 1

\* the reported violations about the change request of reviewer k
ChangeRequestViolations(r, k) ==
    {m \in 1..Len(Reported(r)) :
        /\ Reported(r)[m].Code \in {codePullReqApprovalReqChangeRequested,
                                    codePullReqApprovalReqChangeRequestedOldSHA}
        /\ Reported(r)[m].Args = <<k>>}

\* C25: with RequireNoChangeRequest every reviewer whose decision is
\* change-requested yields exactly one violation, with the
\* require_change_requested code if the reviewer's SHA is the PR's SourceSHA
\* and the old_SHA code otherwise; without it such reviewers yield none; no
\* other reviewer yields one, and a change request never counts as approval.
C25_ChangeRequests ==
    ret.called =>
        /\ ~ret.panic
        /\ \A k \in 1..Len(in.Reviewers) :
              LET reviewer == in.Reviewers[k]
                  about == ChangeRequestViolations(ret, k)
              IN  IF reviewer.ReviewDecision = PullReqReviewDecisionChangeReq
                    THEN /\ ~SeqContains(ret.approvedBy, k)
                         /\ IF v.Approvals.RequireNoChangeRequest
                              THEN /\ Cardinality(about) = 1
                                   /\ \A m \in about :
                                         Reported(ret)[m].Code =
                                            IF reviewer.SHA = in.PullReq.SourceSHA
                                              THEN codePullReqApprovalReqChangeRequested
                                              ELSE codePullReqApprovalReqChangeRequestedOldSHA
                              ELSE about = {}
                    ELSE about = {}

\* two change requests, one for the current commit and one for an older one
C25_Witness ==
    /\ ret.called
    /\ v.Approvals.RequireNoChangeRequest
    /\ Len(in.Reviewers) = 2
    /\ in.Reviewers[1].ReviewDecision = PullReqReviewDecisionChangeReq
    /\ in.Reviewers[2].ReviewDecision = PullReqReviewDecisionChangeReq
    /\ in.Reviewers[1].SHA = in.PullReq.SourceSHA
    /\ in.Reviewers[2].SHA # in.PullReq.SourceSHA
    /\ HasCode(ret, codePullReqApprovalReqChangeRequested)
    /\ HasCode(ret, codePullReqApprovalReqChangeRequestedOldSHA)
    /\ ret.approvedBy = <<>>

\* the codes of the code-owner step
CodeOwnerCodes ==
    {codePullReqApprovalReqCodeOwnersNoApproval,
     codePullReqApprovalReqCodeOwnersChangeRequested,
     codePullReqApprovalReqCodeOwnersNoLatestApproval}

\* the reported code-owner violations
CodeOwnerViolations(r) ==
    {m \in 1..Len(Reported(r)) : Reported(r)[m].Code \in CodeOwnerCodes}

\* the codes reported for pattern k
PatternCodes(r, k) ==
    {Reported(r)[m].Code : m \in {x \in CodeOwnerViolations(r) :
                                      Reported(r)[x].Args = <<k>>}}

\* the codes the pattern of entry e is to yield under rule p
ExpectedPatternCodes(p, i, e) ==
    IF HasLeaf(e, PullReqReviewDecisionChangeReq)
      THEN {codePullReqApprovalReqCodeOwnersChangeRequested}
    ELSE IF ~HasLeaf(e, PullReqReviewDecisionApproved)
      THEN {codePullReqApprovalReqCodeOwnersNoApproval}
    ELSE IF /\ p.Approvals.RequireLatestCommit
            /\ \A a \in 1..Len(Leaves(e)) :
                  Leaves(e)[a].ReviewDecision = PullReqReviewDecisionApproved =>
                      Leaves(e)[a].ReviewSHA # i.PullReq.SourceSHA
      THEN {codePullReqApprovalReqCodeOwnersNoLatestApproval}
    ELSE {}

\* C26: without RequireCodeOwners no code-owner violation is recorded; with
\* it each ownership pattern yields at most one violation: no_approval if
\* its decision is pending (no evaluations included), change_requested if
\* it is change-requested, no_latest_approval if it is approved while
\* RequireLatestCommit is set and no approver's ReviewSHA is the PR's
\* SourceSHA, and none otherwise.
C26_CodeOwnerStep ==
    ret.called =>
        /\ ~v.Approvals.RequireCodeOwners =>
              /\ ~ret.panic
              /\ CodeOwnerViolations(ret) = {}
        /\ (v.Approvals.RequireCodeOwners /\ in.CodeOwners # Nil) =>
              /\ ~ret.panic
              /\ Cardinality(CodeOwnerViolations(ret))
                    <= Len(in.CodeOwners.EvaluationEntries)
              /\ \A k \in 1..Len(in.CodeOwners.EvaluationEntries) :
                    /\ Cardinality({m \in CodeOwnerViolations(ret) :
                                       Reported(ret)[m].Args = <<k>>}) <= 1
                    /\ PatternCodes(ret, k) =
                          ExpectedPatternCodes(v, in, in.CodeOwners.EvaluationEntries[k])

\* a pattern approved for an older commit only, by a user and by a member
\* of a group, next to a pattern without evaluations
C26_Witness ==
    /\ ret.called
    /\ v.Approvals.RequireCodeOwners
    /\ v.Approvals.RequireLatestCommit
    /\ in.CodeOwners # Nil
    /\ Len(in.CodeOwners.EvaluationEntries) = 2
    /\ Len(Leaves(in.CodeOwners.EvaluationEntries[1])) = 2
    /\ Leaves(in.CodeOwners.EvaluationEntries[2]) = <<>>
    /\ PatternCodes(ret, 1) = {codePullReqApprovalReqCodeOwnersNoLatestApproval}
    /\ PatternCodes(ret, 2) = {codePullReqApprovalReqCodeOwnersNoApproval}

\* the list holds a string that is no merge method, or a string twice
Unrecognized(strategies) ==
    \E k \in 1..Len(strategies) : ~SeqContains(MergeMethods, strategies[k])

Duplicate(strategies) ==
    \E k, m \in 1..Len(strategies) : k # m /\ strategies[k] = strategies[m]

IsSorted(strategies) ==
    \A k, m \in 1..Len(strategies) :
        k < m => StringRank(strategies[k]) <= StringRank(strategies[m])

SameElements(s1, s2) ==
    /\ Len(s1) = Len(s2)
    /\ \A x \in StrategyValues :
          Cardinality({k \in 1..Len(s1) : s1[k] = x})
            = Cardinality({k \in 1..Len(s2) : s2[k] = x})

\* C27: DefPullReq.Sanitize returns an error if RequireMinimumCount is
\* negative, if RequireLatestCommit is set while RequireMinimumCount is 0
\* and RequireCodeOwners is off, or if StrategiesAllowed holds an
\* unrecognized or a duplicate strategy; on success StrategiesAllowed is
\* sorted with the same elements and the other fields are unchanged, and a
\* second Sanitize changes nothing.
C27_Sanitize ==
    /\ ret.called =>
          /\ v.Approvals.RequireMinimumCount < 0 => ret.err # ""
          /\ (/\ v.Approvals.RequireLatestCommit
              /\ v.Approvals.RequireMinimumCount = 0
              /\ ~v.Approvals.RequireCodeOwners) => ret.err # ""
          /\ Unrecognized(v.Merge.StrategiesAllowed) => ret.err # ""
          /\ Duplicate(v.Merge.StrategiesAllowed) => ret.err # ""
          /\ ret.err = "" =>
                /\ IsSorted(ret.v.Merge.StrategiesAllowed)
                /\ SameElements(ret.v.Merge.StrategiesAllowed,
                                v.Merge.StrategiesAllowed)
                /\ ret.v = [v EXCEPT !.Merge.StrategiesAllowed =
                                        ret.v.Merge.StrategiesAllowed]
    /\ ret2.called =>
          /\ ret2.err = ""
          /\ ret2.v = ret.v

\* an accepted rule whose strategies were listed in another order, sanitized
\* twice
C27_Witness ==
    /\ ret.called
    /\ ret2.called
    /\ v.Merge.StrategiesAllowed = <<"squash", "merge", "rebase">>
    /\ ret.v.Merge.StrategiesAllowed = <<"merge", "rebase", "squash">>
    /\ v.Approvals.RequireLatestCommit
    /\ v.Merge.DeleteBranch
    /\ ret2.v = ret.v

\* the list a key of a document stands for
ListOf(value) == value.items

\* C28: decoding takes RequireIdentifiers from require_identifiers when
\* that key is present with a non-empty list and from require_uids
\* otherwise; encoding writes the list of the policy under both keys, and
\* decoding the encoding of a policy gives the policy back.
C28_DecodeEncode ==
    /\ (decoded.called /\ document.valid) =>
          /\ ~decoded.result.err
          /\ decoded.result.c.RequireIdentifiers.items =
                IF /\ document.require_identifiers.kind = "array"
                   /\ document.require_identifiers.items # <<>>
                  THEN document.require_identifiers.items
                  ELSE ListOf(document.require_uids)
    /\ roundTrip.called =>
          /\ ListOf(roundTrip.encoded.require_identifiers)
                = checks.RequireIdentifiers.items
          /\ ListOf(roundTrip.encoded.require_uids) = checks.RequireIdentifiers.items
          /\ ~roundTrip.result.err
          /\ roundTrip.result.c = checks

\* a document with the legacy key alone was decoded, and a policy with two
\* identifiers went through the round trip
C28_Witness ==
    /\ decoded.called
    /\ document.valid
    /\ document.require_identifiers = Absent
    /\ document.require_uids = Array(<<"ci", "lint">>)
    /\ decoded.result.c.RequireIdentifiers = Slice(<<"ci", "lint">>)
    /\ roundTrip.called
    /\ checks.RequireIdentifiers = Slice(<<"lint", "ci">>)
    /\ roundTrip.encoded.require_uids = Array(<<"lint", "ci">>)
    /\ roundTrip.result.c = checks

(***************************************************************************)
(* Isolation of the pull requests in the head-ref synchronizer.            *)
(***************************************************************************)
\* worker w returns from its handler at this step
Completes(w) == worker[w] # Idle /\ worker'[w] = Idle

\* the references that differ after the step
Written == {name \in DOMAIN refs : refs'[name] # refs[name]}

\* C29: the handler of an event for pull request n of repository r writes
\* at most one reference, the head ref of n in r; the head refs of the other
\* pull requests and the branches and tags stay as they are, whatever the
\* other workers handle meanwhile, and a handler that returns before its
\* UpdateRef, as on a failure of the git info lookup, writes none.
C29_PerPRIsolation ==
    [][/\ \A w \in Workers :
            Completes(w) =>
                LET ev == published[worker[w]]
                IN  /\ Written \subseteq
                          {<<ev.TargetRepoID, RefTypePullReqHead, ev.Number>>}
                    /\ ~lastH'[ev.Number].issued => Written = {}
       /\ (\A w \in Workers : ~Completes(w)) => Written = {}]_vars

\* the head ref of pull request 2 of the first repository was created while
\* another worker was handling an event; the head ref of the same number in
\* the other repository still does not exist and the other head ref of the
\* repository is as it was
C29_Witness ==
    /\ lastH[2].kind = KindCreated
    /\ lastH[2].issued
    /\ ~lastH[2].err
    /\ lastH[2].others # {}
    /\ published[lastH[2].ev].TargetRepoID = TargetRepo
    /\ refs[<<TargetRepo, RefTypePullReqHead, 2>>] = 2
    /\ refs[<<TargetRepo + 1, RefTypePullReqHead, 2>>] = RefNotFound
    /\ refs[<<TargetRepo, RefTypePullReqHead, 1>>] = 1

====
